---------------------------- MODULE Spec2Model ----------------------------
(***************************************************************************)
(* Floor-plan generation and CAD export services.                          *)
(*                                                                         *)
(*   PlannerService   src/src/modules/planner/planner.routes.js            *)
(*   CAD service      src/src/modules/cad/cad.service.js                   *)
(*   DWG converter    src/src/modules/cad/dwg.converter.js                 *)
(*                                                                         *)
(* Lengths are whole feet, times are milliseconds.  A JavaScript           *)
(* `undefined` object is the record Undefined, an absent (falsy) string is *)
(* "", an absent number is UNDEF.                                          *)
(***************************************************************************)
EXTENDS Integers, Sequences, FiniteSets, TLC

VARIABLES
    now,            \* Date.now()
    responseCache,  \* PlannerService.responseCache : Map, in insertion order
    req,            \* generatePlan requests: position and locals of each
    cacheLog,       \* history: every setCache(key, data) in the order made
    vin,            \* validator harness: the raw content under test
    vplan,          \* validator harness: parseAndValidateResponse's result
    vres,           \* validator harness: validatePlanGeometry's result
    vpc,            \* validator harness: position
    cache,          \* cad.service cache : Map, in insertion order
    cadReq,         \* generateCADFiles requests: position and locals of each
    cadSeq,         \* history: number of keys ever added to the export cache
    cadLast,        \* history: how the last generateCADFiles call ended
    conv,           \* convertDXFtoDWG calls: position and locals of each
    poll,           \* the pollJobStatus call: position and locals
    tool,           \* local-tool conversions: position and locals of each
    disk            \* the temporary directory: the files in it

vars == <<now, responseCache, req, cacheLog, vin, vplan, vres, vpc,
          cache, cadReq, cadSeq, cadLast, conv, poll, tool, disk>>

plannerVars == <<responseCache, req, cacheLog>>
validatorVars == <<vin, vplan, vres, vpc>>
cadVars == <<cache, cadReq, cadSeq, cadLast>>
jobVars == <<poll, tool, disk>>

-----------------------------------------------------------------------------
(* Program constants *)

maxRetries == 3
retryDelay == 1000
cacheMaxAge == 5 * 60 * 1000
SweepThreshold == 100
CACHE_TTL == 5 * 60 * 1000
maxAttempts == 60           \* pollJobStatus
pollInterval == 2000
MAX_CACHE_SIZE == 50
overlapTolerance2 == 1      \* tolerance = 0.5 ft, doubled
boundsTolerance == 1

(* Bounds of the model *)

NumReq == 3          \* generatePlan requests of the cache specification
NumKeys == 1         \* distinct (prompt, meta) pairs
MaxTicks == 2        \* clock advances, each of half the cache TTL
MaxRooms == 2        \* rooms of the floor the validator is tried on
MaxHalfFeet == 3     \* largest coordinate and width, in half feet, of the overlap test
CadExtraKeys == 1    \* distinct export keys beyond MAX_CACHE_SIZE
MaxCadTicks == 1     \* clock advances of the export specification, a TTL each
CadBatch == 25       \* there, the clock advances between batches of this many entries
NumCadReq == 2       \* export requests in flight
NumConv == 2         \* conversions in flight
MaxAreas == 1        \* ground floor areas of the plans that share floors
MaxSweepKeys == 102  \* generation-cache keys of the sweep specification
TickEvery == 50      \* there, the clock advances between batches of this many entries
MaxSweepTicks == 3   \* there, clock advances, each of half the cache TTL
NumSweepReq == 2     \* there, generatePlan requests in flight
NumTools == 2        \* local-tool conversions in flight
MaxToolTicks == 1    \* milliseconds that pass while they run

Undefined == [undefined |-> TRUE]
UNDEF == 0 - 1

Max(a, b) == IF a >= b THEN a ELSE b

-----------------------------------------------------------------------------
(* A JavaScript Map as the sequence of its entries in insertion order.     *)
(* Entries are records with a field key.                                   *)

MapHas(m, k) == \E i \in 1..Len(m) : m[i].key = k

MapIndex(m, k) == CHOOSE i \in 1..Len(m) : m[i].key = k

MapGet(m, k) == IF MapHas(m, k) THEN m[MapIndex(m, k)] ELSE Undefined

\* Map.prototype.set: a new key is appended, an existing key keeps its place.
MapSet(m, e) ==
    IF MapHas(m, e.key)
    THEN [m EXCEPT ![MapIndex(m, e.key)] = e]
    ELSE Append(m, e)

MapDelete(m, k) == SelectSeq(m, LAMBDA e : e.key # k)

MapKeys(m) == {m[i].key : i \in 1..Len(m)}

-----------------------------------------------------------------------------
(* Plan data.  An array is a record [items |-> <<...>>] so that it can be  *)
(* told from Undefined.                                                    *)

Arr(s) == [items |-> s]

Falsy(n) == n = UNDEF \/ n = 0

Opt(cond, e) == IF cond THEN <<e>> ELSE <<>>

RECURSIVE Concat(_)
Concat(ss) == IF ss = <<>> THEN <<>> ELSE Head(ss) \o Concat(Tail(ss))

RECURSIVE SumSeq(_)
SumSeq(s) == IF s = <<>> THEN 0 ELSE Head(s) + SumSeq(Tail(s))

\* String.prototype.toLowerCase().includes(kw), tabulated for the names the
\* model uses.
KeywordsIn(s) ==
    IF s = "Master Bedroom" THEN {"master", "bedroom", "bed", "room"}
    ELSE IF s = "bedroom" THEN {"bedroom", "bed", "room"}
    ELSE IF s = "Bath" THEN {"bath"}
    ELSE IF s = "bathroom" THEN {"bath", "bathroom", "room"}
    ELSE IF s = "Living Room" THEN {"living", "room"}
    ELSE IF s = "living" THEN {"living"}
    ELSE IF s = "Room 1" THEN {"room"}
    ELSE IF s = "Room 2" THEN {"room"}
    ELSE IF s = "room" THEN {"room"}
    ELSE {}

Includes(s, kw) == kw \in KeywordsIn(s)

\* The keyword tests of inferRoomType, in the order the source makes them.
RoomTypeTable ==
    << [words |-> {"bedroom", "master"}, type |-> "bedroom"],
       [words |-> {"bath", "toilet", "wc"}, type |-> "bathroom"],
       [words |-> {"kitchen"}, type |-> "kitchen"],
       [words |-> {"living", "lounge", "drawing"}, type |-> "living"],
       [words |-> {"dining"}, type |-> "dining"],
       [words |-> {"office", "study"}, type |-> "office"],
       [words |-> {"corridor", "hall", "lobby"}, type |-> "corridor"],
       [words |-> {"stair"}, type |-> "staircase"],
       [words |-> {"storage", "closet", "store"}, type |-> "storage"],
       [words |-> {"garage", "parking"}, type |-> "garage"],
       [words |-> {"balcony", "porch", "veranda"}, type |-> "outdoor"] >>

inferRoomType(name) ==
    LET Hit == {k \in 1..Len(RoomTypeTable) :
                   RoomTypeTable[k].words \cap KeywordsIn(name) # {}}
    IN  IF Hit = {} THEN "room"
        ELSE RoomTypeTable[CHOOSE k \in Hit : \A h \in Hit : k <= h].type

\* Math.round(Math.sqrt(a)) for an integer a > 0: the n with
\* (n - 0.5)^2 <= a < (n + 0.5)^2.
RoundSqrt(a) ==
    CHOOSE n \in 0..a : (2*n - 1) * (2*n - 1) <= 4*a /\ 4*a < (2*n + 1) * (2*n + 1)

\* The largest of acc and the values s[i] of a sequence of numbers.
RECURSIVE MaxOf(_, _)
MaxOf(s, acc) == IF s = <<>> THEN acc ELSE MaxOf(Tail(s), Max(acc, Head(s)))

\* calculateBuildingDimensions over the rooms' sizes, whatever their
\* positions.
calculateBuildingDimensions_SizesOnly(rooms) ==
    LET Placed(i) == rooms[i].position # Undefined /\ rooms[i].dimensions # Undefined
        roomRight == [i \in 1..Len(rooms) |->
                         IF Placed(i) THEN rooms[i].dimensions.width ELSE 0]
        roomBottom == [i \in 1..Len(rooms) |->
                          IF Placed(i) THEN rooms[i].dimensions.length ELSE 0]
    IN  IF Len(rooms) = 0
        THEN [width |-> 40, depth |-> 30]
        ELSE [width |-> Max(MaxOf(roomRight, 0), 20),
              depth |-> Max(MaxOf(roomBottom, 0), 20)]

calculateBuildingDimensions(rooms) ==
    LET Placed(i) == rooms[i].position # Undefined /\ rooms[i].dimensions # Undefined
        roomRight == [i \in 1..Len(rooms) |->
                         IF Placed(i)
                         THEN rooms[i].position.x + rooms[i].dimensions.width
                         ELSE 0]
        roomBottom == [i \in 1..Len(rooms) |->
                          IF Placed(i)
                          THEN rooms[i].position.y + rooms[i].dimensions.length
                          ELSE 0]
    IN  IF Len(rooms) = 0
        THEN [width |-> 40, depth |-> 30]
        ELSE [width |-> Max(MaxOf(roomRight, 0), 20),
              depth |-> Max(MaxOf(roomBottom, 0), 20)]

\* room.name after "Ensure room has a name"; roomIndex counts from 0.
RoomName(room, roomIndex) ==
    IF room.name # "" THEN room.name
    ELSE IF room.type # "" THEN room.type
    ELSE "Room " \o ToString(roomIndex + 1)

\* room.areaSqft after "Calculate area if missing" (Math.round of a product
\* of whole numbers).
RoomAreaSqft(room) ==
    IF Falsy(room.areaSqft) /\ room.dimensions # Undefined
    THEN room.dimensions.length * room.dimensions.width
    ELSE room.areaSqft

\* room.dimensions after "Ensure dimensions exist", given the area so far.
RoomDimensions(room, area) ==
    IF room.dimensions = Undefined /\ ~Falsy(area)
    THEN [length |-> RoundSqrt(area), width |-> RoundSqrt(area)]
    ELSE room.dimensions

\* NormalizedRoom with the position set to the default whether or not the
\* room has one.
NormalizedRoom_DefaultPosition(room, floorIndex, roomIndex, name, area) ==
    [id |-> IF room.id = ""
            THEN "room-" \o ToString(floorIndex) \o "-" \o ToString(roomIndex)
            ELSE room.id,
     name |-> name,
     type |-> IF room.type = "" THEN inferRoomType(name) ELSE room.type,
     areaSqft |-> area,
     dimensions |-> RoomDimensions(room, area),
     position |-> [x |-> 0, y |-> 0],
     doors |-> IF room.doors = Undefined THEN Arr(<<>>) ELSE room.doors,
     windows |-> IF room.windows = Undefined THEN Arr(<<>>) ELSE room.windows]

NormalizedRoom(room, floorIndex, roomIndex, name, area) ==
    [id |-> IF room.id = ""
            THEN "room-" \o ToString(floorIndex) \o "-" \o ToString(roomIndex)
            ELSE room.id,
     name |-> name,
     type |-> IF room.type = "" THEN inferRoomType(name) ELSE room.type,
     areaSqft |-> area,
     dimensions |-> RoomDimensions(room, area),
     position |-> IF room.position = Undefined THEN [x |-> 0, y |-> 0]
                  ELSE room.position,
     doors |-> IF room.doors = Undefined THEN Arr(<<>>) ELSE room.doors,
     windows |-> IF room.windows = Undefined THEN Arr(<<>>) ELSE room.windows]

\* The body of floor.rooms.forEach in parseAndValidateResponse; floorIndex and
\* roomIndex count from 0 as in the source.
NormalizeRoom(room, floorIndex, roomIndex) ==
    NormalizedRoom(room, floorIndex, roomIndex, RoomName(room, roomIndex),
                   RoomAreaSqft(room))

RoomArea(room) == IF Falsy(room.areaSqft) THEN 0 ELSE room.areaSqft

\* floor.level after the default; floorIndex counts from 0.
FloorLevel(floor, floorIndex) ==
    IF floor.level # "" THEN floor.level
    ELSE IF floorIndex = 0 THEN "Ground"
    ELSE "Floor " \o ToString(floorIndex)

NormalizedFloor(floor, floorIndex, rooms) ==
    [level |-> FloorLevel(floor, floorIndex),
     rooms |-> Arr(rooms),
     totalArea |-> IF Falsy(floor.totalArea)
                   THEN SumSeq([i \in 1..Len(rooms) |-> RoomArea(rooms[i])])
                   ELSE floor.totalArea]

\* The body of plan.floors.forEach, for a floor that has rooms.
NormalizeFloor(floor, floorIndex) ==
    NormalizedFloor(floor, floorIndex,
                    [i \in 1..Len(floor.rooms.items) |->
                        NormalizeRoom(floor.rooms.items[i], floorIndex, i - 1)])

FloorArea(floor) == IF Falsy(floor.totalArea) THEN 0 ELSE floor.totalArea

\* The floors of fl that fail the rooms checks.
BadFloors(fl) ==
    {i \in 1..Len(fl) : fl[i].rooms = Undefined \/ Len(fl[i].rooms.items) = 0}

FirstBadFloorError(fl, i) ==
    IF fl[i].rooms = Undefined
    THEN "Floor " \o FloorLevel(fl[i], i - 1) \o " is missing rooms array"
    ELSE "Floor " \o FloorLevel(fl[i], i - 1) \o " must have at least one room"

\* The first structural error parseAndValidateResponse throws, "" when none.
\* Floors are visited in order and a floor's error is thrown before any later
\* floor is looked at.
StructuralError(content) ==
    IF content.kind = "text" THEN "Unexpected token"
    ELSE IF content.plan.floors = Undefined
    THEN "Missing or invalid floors array in response"
    ELSE IF Len(content.plan.floors.items) = 0
    THEN "Plan must have at least one floor"
    ELSE IF BadFloors(content.plan.floors.items) = {} THEN ""
    ELSE FirstBadFloorError(content.plan.floors.items,
             CHOOSE j \in BadFloors(content.plan.floors.items) :
                 \A k \in BadFloors(content.plan.floors.items) : j <= k)

AppError(message, statusCode) ==
    [isAppError |-> TRUE, statusCode |-> statusCode, code |-> "", message |-> message]

NormalizedPlan(raw, meta, floors) ==
    [buildingType |-> IF raw.buildingType # "" THEN raw.buildingType
                      ELSE IF meta.buildingType # "" THEN meta.buildingType
                      ELSE "Residential",
     floors |-> Arr(floors),
     buildingDimensions |-> IF raw.buildingDimensions = Undefined
                            THEN calculateBuildingDimensions(floors[1].rooms.items)
                            ELSE raw.buildingDimensions,
     totalArea |-> IF Falsy(raw.totalArea)
                   THEN SumSeq([i \in 1..Len(floors) |-> FloorArea(floors[i])])
                   ELSE raw.totalArea,
     exterior |-> IF raw.exterior = Undefined
                  THEN [mainEntrance |-> [wall |-> "south", position |-> 0],
                        style |-> "modern"]
                  ELSE raw.exterior,
     designNotes |-> IF raw.designNotes = Undefined THEN Arr(<<>>)
                     ELSE raw.designNotes,
     validationWarnings |-> raw.validationWarnings]

ParseOutcome(content, meta, err) ==
    IF err # ""
    THEN [ok |-> FALSE,
          error |-> AppError("Failed to parse AI response: " \o err, 500)]
    ELSE [ok |-> TRUE,
          plan |-> NormalizedPlan(content.plan, meta,
                       [i \in 1..Len(content.plan.floors.items) |->
                           NormalizeFloor(content.plan.floors.items[i], i - 1)])]

\* parseAndValidateResponse(content, meta): [ok |-> TRUE, plan |-> ...] or
\* [ok |-> FALSE, error |-> the AppError thrown].
parseAndValidateResponse(content, meta) ==
    ParseOutcome(content, meta, StructuralError(content))

-----------------------------------------------------------------------------
(* Geometry validator *)

\* A TypeError: reading a property of undefined.
TypeError == [isAppError |-> FALSE, statusCode |-> 0, code |-> "",
              message |-> "Cannot read properties of undefined"]

\* roomsOverlap reads position.x and dimensions.width of both rooms
\* unconditionally.
roomsOverlapThrows(room1, room2) ==
    \/ room1.position = Undefined \/ room1.dimensions = Undefined
    \/ room2.position = Undefined \/ room2.dimensions = Undefined

Rect(room) ==
    [left |-> room.position.x,
     right |-> room.position.x + room.dimensions.width,
     top |-> room.position.y,
     bottom |-> room.position.y + room.dimensions.length]

\* A rectangle in half feet.
Twice(r) ==
    [left |-> 2 * r.left, right |-> 2 * r.right,
     top |-> 2 * r.top, bottom |-> 2 * r.bottom]

\* RectsOverlap2 with a strict comparison in place of the tolerance.
RectsOverlap2_NoTolerance(d1, d2) ==
    ~ (\/ d1.right < d2.left
       \/ d1.left > d2.right
       \/ d1.bottom < d2.top
       \/ d1.top > d2.bottom)

\* The return expression of roomsOverlap on rectangles given in half feet,
\* in which the tolerance 0.5 is overlapTolerance2.
RectsOverlap2(d1, d2) ==
    ~ (\/ d1.right <= d2.left + overlapTolerance2
       \/ d1.left >= d2.right - overlapTolerance2
       \/ d1.bottom <= d2.top + overlapTolerance2
       \/ d1.top >= d2.bottom - overlapTolerance2)

\* The return expression of roomsOverlap on rectangles in whole feet.
RectsOverlap(r1, r2) == RectsOverlap2(Twice(r1), Twice(r2))

\* roomsOverlap(room1, room2) for rooms that have position and dimensions.
roomsOverlap(room1, room2) == RectsOverlap(Rect(room1), Rect(room2))

\* minSizes, in the order Object.entries visits it.
minSizes == << [type |-> "bedroom", minSize |-> 70],
               [type |-> "bathroom", minSize |-> 35],
               [type |-> "kitchen", minSize |-> 50],
               [type |-> "living", minSize |-> 120],
               [type |-> "dining", minSize |-> 80],
               [type |-> "office", minSize |-> 64] >>

\* JavaScript's n < m for a number n that may be undefined (NaN < m is false).
JsLess(n, m) == n # UNDEF /\ n < m

\* The entries of minSizes whose test succeeds for the room.
MinSizeHits(room) ==
    {k \in 1..Len(minSizes) :
        Includes(room.type, minSizes[k].type)
        /\ JsLess(room.areaSqft, minSizes[k].minSize)}

\* The for loop over minSizes: the first hit pushes an error and breaks.
MinSizeErrors(room) ==
    IF MinSizeHits(room) = {} THEN <<>>
    ELSE << [kind |-> "minsize", room |-> room.name,
             other |-> minSizes[CHOOSE j \in MinSizeHits(room) :
                                    \A h \in MinSizeHits(room) : j <= h].type,
             floor |-> ""] >>

\* Whether the callback of floorRooms.forEach throws for room number i:
\* a room with position and dimensions is compared with every later room.
RoomThrows(rooms, i) ==
    /\ rooms[i].position # Undefined
    /\ rooms[i].dimensions # Undefined
    /\ \E j \in (i + 1)..Len(rooms) : roomsOverlapThrows(rooms[i], rooms[j])

\* PlacedRoomErrors without the 1 ft allowance of the bounds tests.
PlacedRoomErrors_NoAllowance(floor, rooms, i, room, building) ==
       Opt(room.position.x + room.dimensions.width > building.width,
           [kind |-> "width", room |-> room.name, other |-> "", floor |-> ""])
    \o Opt(room.position.y + room.dimensions.length > building.depth,
           [kind |-> "depth", room |-> room.name, other |-> "", floor |-> ""])
    \o Opt(room.position.x < 0 \/ room.position.y < 0,
           [kind |-> "negative", room |-> room.name, other |-> "", floor |-> ""])
    \o Concat([j \in 1..Len(rooms) |->
                  IF i >= j THEN <<>>
                  ELSE Opt(roomsOverlap(room, rooms[j]),
                           [kind |-> "overlap", room |-> room.name,
                            other |-> rooms[j].name, floor |-> floor.level])])
    \o MinSizeErrors(room)

\* PlacedRoomErrors with the room compared with every other room of the
\* floor that has position and dimensions, the earlier ones included.
PlacedRoomErrors_BothOrders(floor, rooms, i, room, building) ==
       Opt(room.position.x + room.dimensions.width > building.width + boundsTolerance,
           [kind |-> "width", room |-> room.name, other |-> "", floor |-> ""])
    \o Opt(room.position.y + room.dimensions.length > building.depth + boundsTolerance,
           [kind |-> "depth", room |-> room.name, other |-> "", floor |-> ""])
    \o Opt(room.position.x < 0 \/ room.position.y < 0,
           [kind |-> "negative", room |-> room.name, other |-> "", floor |-> ""])
    \o Concat([j \in 1..Len(rooms) |->
                  IF i = j \/ roomsOverlapThrows(room, rooms[j]) THEN <<>>
                  ELSE Opt(roomsOverlap(room, rooms[j]),
                           [kind |-> "overlap", room |-> room.name,
                            other |-> rooms[j].name, floor |-> floor.level])])
    \o MinSizeErrors(room)

\* The errors the callback of floorRooms.forEach pushes for a room that has
\* position and dimensions, room number i of the floor.
PlacedRoomErrors(floor, rooms, i, room, building) ==
       Opt(room.position.x + room.dimensions.width > building.width + boundsTolerance,
           [kind |-> "width", room |-> room.name, other |-> "", floor |-> ""])
    \o Opt(room.position.y + room.dimensions.length > building.depth + boundsTolerance,
           [kind |-> "depth", room |-> room.name, other |-> "", floor |-> ""])
    \o Opt(room.position.x < 0 \/ room.position.y < 0,
           [kind |-> "negative", room |-> room.name, other |-> "", floor |-> ""])
    \o Concat([j \in 1..Len(rooms) |->
                  IF i >= j THEN <<>>
                  ELSE Opt(roomsOverlap(room, rooms[j]),
                           [kind |-> "overlap", room |-> room.name,
                            other |-> rooms[j].name, floor |-> floor.level])])
    \o MinSizeErrors(room)

\* The errors the callback of floorRooms.forEach pushes for room number i.
RoomErrors(floor, i, building) ==
    IF floor.rooms.items[i].position = Undefined
       \/ floor.rooms.items[i].dimensions = Undefined
    THEN << [kind |-> "missing", room |-> floor.rooms.items[i].name, other |-> "",
             floor |-> floor.level] >>
    ELSE PlacedRoomErrors(floor, floor.rooms.items, i, floor.rooms.items[i], building)

GeometryReport(errors) ==
    [threw |-> FALSE, valid |-> errors = <<>>, errors |-> errors]

\* Whether an exception leaves plan.floors.forEach.
GeometryThrows(floors) ==
    \E f \in 1..Len(floors) :
        \E i \in 1..Len(floors[f].rooms.items) :
            RoomThrows(floors[f].rooms.items, i)

\* validatePlanGeometry(plan): [threw |-> FALSE, valid, errors], or
\* [threw |-> TRUE, error] when an exception leaves the function.
validatePlanGeometry(plan) ==
    IF plan.buildingDimensions = Undefined
    THEN [threw |-> FALSE, valid |-> FALSE,
          errors |-> << [kind |-> "nodimensions", room |-> "", other |-> "",
                         floor |-> ""] >>]
    ELSE IF GeometryThrows(plan.floors.items)
    THEN [threw |-> TRUE, error |-> TypeError]
    ELSE GeometryReport(
             Concat([f \in 1..Len(plan.floors.items) |->
                 Concat([i \in 1..Len(plan.floors.items[f].rooms.items) |->
                     RoomErrors(plan.floors.items[f], i, plan.buildingDimensions)])]))

-----------------------------------------------------------------------------
(* Inputs: what the completion provider can answer *)

RawRoom(name, type, area, dims, pos) ==
    [id |-> "", name |-> name, type |-> type, areaSqft |-> area,
     dimensions |-> dims, position |-> pos, doors |-> Undefined,
     windows |-> Undefined]

Dims(w, l) == [length |-> l, width |-> w]
Pos(x, y) == [x |-> x, y |-> y]

RawFloor(rooms) == [level |-> "", rooms |-> rooms, totalArea |-> UNDEF]

\* The object JSON.parse returns; validationWarnings is a property the
\* service's prompt does not ask for.
RawPlan(floors, building) ==
    [buildingType |-> "", floors |-> floors, buildingDimensions |-> building,
     totalArea |-> UNDEF, exterior |-> Undefined, designNotes |-> Undefined,
     validationWarnings |-> Undefined]

Building4030 == [width |-> 40, depth |-> 30]

RoomA == RawRoom("Living Room", "", UNDEF, Dims(16, 14), Pos(0, 0))
RoomB == RawRoom("Master Bedroom", "", UNDEF, Dims(12, 10), Pos(16, 0))
RoomOver == RawRoom("", "bedroom", 100, Dims(10, 10), Pos(5, 5))
RoomBare == RawRoom("Bath", "", UNDEF, Undefined, Pos(16, 0))

Json(plan, tokens) == [kind |-> "json", plan |-> plan, usage |-> tokens]

\* Two plans that pass validation.
ContentGood1 == Json(RawPlan(Arr(<<RawFloor(Arr(<<RoomA, RoomB>>))>>), Building4030), 100)
ContentGood2 == Json(RawPlan(Arr(<<RawFloor(Arr(<<RoomA>>))>>), Undefined), 200)
\* Two rooms that overlap.
ContentOverlap == Json(RawPlan(Arr(<<RawFloor(Arr(<<RoomA, RoomOver>>))>>), Building4030), 300)
\* A later room without dimensions and without area.
ContentBare == Json(RawPlan(Arr(<<RawFloor(Arr(<<RoomA, RoomBare>>))>>), Building4030), 400)
\* A plan that passes validation and has a validationWarnings property of
\* its own.
ContentWarned ==
    Json([RawPlan(Arr(<<RawFloor(Arr(<<RoomA, RoomB>>))>>), Building4030)
             EXCEPT !.validationWarnings = Arr(<<"as the provider wrote it">>)], 900)
ContentNoFloors == Json(RawPlan(Undefined, Building4030), 500)
ContentNoRooms == Json(RawPlan(Arr(<<RawFloor(Arr(<<>>))>>), Building4030), 600)
ContentText == [kind |-> "text", usage |-> 700]
ContentEmpty == [kind |-> "empty", usage |-> 800]

ProviderError(code) == [kind |-> "error", code |-> code]

Replies == {ContentGood1, ContentGood2, ContentOverlap, ContentBare,
            ContentWarned, ContentNoFloors, ContentNoRooms, ContentText,
            ContentEmpty}

ProviderErrors == {ProviderError("insufficient_quota"),
                   ProviderError("context_length_exceeded"),
                   ProviderError("rate_limit_exceeded"),
                   ProviderError("server_error")}

Outcomes == Replies \cup ProviderErrors

\* The meta of each cache key (prompt, meta).
MetaOf(key) == [buildingType |-> IF key = 1 THEN "Commercial" ELSE ""]

-----------------------------------------------------------------------------
(* PlannerService: the generation cache *)

\* getFromCache that still returns an entry at the end of its lifetime.
getFromCache_AtLifetime(m, key, t) ==
    IF MapGet(m, key) # Undefined /\ t - MapGet(m, key).timestamp <= cacheMaxAge
    THEN MapGet(m, key).data
    ELSE Undefined

\* getFromCache with the lifetime taken in seconds.
getFromCache_LifetimeInSeconds(m, key, t) ==
    IF MapGet(m, key) # Undefined /\ t - MapGet(m, key).timestamp < 5 * 60
    THEN MapGet(m, key).data
    ELSE Undefined

\* getFromCache(key): the cached data, or Undefined for null.
getFromCache(m, key, t) ==
    LET cached == MapGet(m, key)
    IN  IF cached # Undefined /\ t - cached.timestamp < cacheMaxAge
        THEN cached.data
        ELSE Undefined
\* setCache that keeps the Map at the threshold by dropping its first
\* entries.
setCache_KeepsToThreshold(m, key, data, t, t2) ==
    IF Len(MapSet(m, [key |-> key, data |-> data, timestamp |-> t])) > SweepThreshold
    THEN Tail(SelectSeq(MapSet(m, [key |-> key, data |-> data, timestamp |-> t]),
                        LAMBDA e : ~ (t2 - e.timestamp > cacheMaxAge)))
    ELSE MapSet(m, [key |-> key, data |-> data, timestamp |-> t])

\* setCache that sweeps at every insert.
setCache_SweepsAlways(m, key, data, t, t2) ==
    SelectSeq(MapSet(m, [key |-> key, data |-> data, timestamp |-> t]),
              LAMBDA e : ~ (t2 - e.timestamp > cacheMaxAge))


\* setCache(key, data): the Map afterwards, the sweep of expired entries
\* included.  t is the reading of Date.now() that stamps the entry, t2 the
\* reading the sweep makes.
setCache(m, key, data, t, t2) ==
    LET m1 == MapSet(m, [key |-> key, data |-> data, timestamp |-> t])
    IN  IF Len(m1) > SweepThreshold
        THEN SelectSeq(m1, LAMBDA e : ~ (t2 - e.timestamp > cacheMaxAge))
        ELSE m1

\* A reading of Date.now() made after one that gave now, later in the same
\* synchronous run of code: the clock stands still or a millisecond passes.
SecondReadings ==
    {now} \cup {t \in {now + 1} : now % (cacheMaxAge \div 2) < MaxToolTicks}

\* The readings the sweep of setCache(key, data) may make: it reads the
\* clock only when the Map holds more than 100 entries after the set.
SweepReadings(m, key) ==
    IF Len(MapSet(m, [key |-> key, data |-> Undefined, timestamp |-> now]))
          > SweepThreshold
    THEN SecondReadings
    ELSE {now}

-----------------------------------------------------------------------------
(* PlannerService.generatePlan *)

\* The error object the provider call rejects with.
ApiError(code) ==
    [isAppError |-> FALSE, statusCode |-> 0, code |-> code, message |-> "provider"]

\* TryValidated that accepts a plan with warnings on any attempt.
TryValidated_AcceptsAtOnce(plan, usage, validationResult, attempt) ==
    IF validationResult.threw
    THEN [threw |-> TRUE, error |-> validationResult.error]
    ELSE [threw |-> FALSE, retry |-> FALSE,
          plan |-> IF validationResult.valid THEN plan
                   ELSE [plan EXCEPT !.validationWarnings =
                                         Arr(validationResult.errors)],
          usage |-> usage]

\* The try block from the geometry validation on.
TryValidated(plan, usage, validationResult, attempt) ==
    IF validationResult.threw
    THEN [threw |-> TRUE, error |-> validationResult.error]
    ELSE IF ~validationResult.valid /\ attempt < maxRetries
    THEN [threw |-> FALSE, retry |-> TRUE]
    ELSE [threw |-> FALSE, retry |-> FALSE,
          plan |-> IF validationResult.valid THEN plan
                   ELSE [plan EXCEPT !.validationWarnings =
                                         Arr(validationResult.errors)],
          usage |-> usage]

\* The try block from the parse on.
TryParsed(parsed, usage, attempt) ==
    IF ~parsed.ok THEN [threw |-> TRUE, error |-> parsed.error]
    ELSE TryValidated(parsed.plan, usage, validatePlanGeometry(parsed.plan), attempt)

\* TryBlock with the empty body reported as a bad request.
TryBlock_EmptyIsBadRequest(o, meta, attempt) ==
    IF o.kind = "error" THEN [threw |-> TRUE, error |-> ApiError(o.code)]
    ELSE IF o.kind = "empty"
    THEN [threw |-> TRUE,
          error |-> AppError("Failed to generate plan: Empty response from AI", 400)]
    ELSE TryParsed(parseAndValidateResponse(o, meta), o.usage, attempt)

\* The try block of one attempt, from the provider's answer on:
\*   [threw |-> TRUE, error]                  an exception reaches the catch
\*   [threw |-> FALSE, retry |-> TRUE]        geometry invalid, attempts left
\*   [threw |-> FALSE, retry |-> FALSE, plan, usage]   the result to return
TryBlock(o, meta, attempt) ==
    IF o.kind = "error" THEN [threw |-> TRUE, error |-> ApiError(o.code)]
    ELSE IF o.kind = "empty"
    THEN [threw |-> TRUE,
          error |-> AppError("Failed to generate plan: Empty response from AI", 500)]
    ELSE TryParsed(parseAndValidateResponse(o, meta), o.usage, attempt)

\* CatchBlock without the insufficient_quota test.
CatchBlock_NoQuotaTest(error) ==
    IF error.isAppError /\ (error.statusCode = 400 \/ error.statusCode = 503)
    THEN error
    ELSE IF error.code = "context_length_exceeded"
    THEN AppError("Request too large. Please simplify your requirements.", 400)
    ELSE Undefined

\* CatchBlock that rethrows whatever AppError it caught and passes the
\* provider's quota error on as it is.
CatchBlock_RethrowsRaw(error) ==
    IF error.isAppError /\ (error.statusCode = 400 \/ error.statusCode = 503)
    THEN error
    ELSE IF error.code = "insufficient_quota"
    THEN error
    ELSE IF error.code = "context_length_exceeded"
    THEN AppError("Request too large. Please simplify your requirements.", 400)
    ELSE Undefined

\* The catch block up to the backoff: the error it throws to the caller, or
\* Undefined when the loop goes on.
CatchBlock(error) ==
    IF error.isAppError /\ (error.statusCode = 400 \/ error.statusCode = 503)
    THEN error
    ELSE IF error.code = "insufficient_quota"
    THEN AppError("AI service quota exceeded. Please try again later.", 503)
    ELSE IF error.code = "context_length_exceeded"
    THEN AppError("Request too large. Please simplify your requirements.", 400)
    ELSE Undefined

\* Exhausted without the rate-limit test.
Exhausted_NoRateLimitTest(lastError) ==
    AppError("Failed to generate architectural plan after multiple attempts. Please try again.", 500)

\* After the loop: all retries exhausted.
Exhausted(lastError) ==
    IF lastError # Undefined /\ lastError.code = "rate_limit_exceeded"
    THEN AppError("Too many requests. Please wait and try again.", 429)
    ELSE AppError("Failed to generate architectural plan after multiple attempts. Please try again.", 500)

IdleReq ==
    [pc |-> "idle", key |-> 0, attempt |-> 0, calls |-> 0, delays |-> <<>>,
     wakeAt |-> 0, lastError |-> Undefined, result |-> Undefined,
     error |-> Undefined, fromCache |-> FALSE, outcomes |-> <<>>,
     logAtStart |-> 0]

\* generatePlan(prompt, meta) up to its first await: the cache check and, on
\* a miss, the first provider call.
GenStart(r, key) ==
    /\ req[r].pc = "idle"
    /\ \A s \in 1..(r - 1) : req[s].pc # "idle"
    /\ LET cachedResponse == getFromCache(responseCache, key, now)
           q == [req[r] EXCEPT !.key = key, !.logAtStart = Len(cacheLog)]
       IN  req' = [req EXCEPT ![r] =
                     IF cachedResponse # Undefined
                     THEN [q EXCEPT !.pc = "returned", !.result = cachedResponse,
                                    !.fromCache = TRUE]
                     ELSE [q EXCEPT !.pc = "calling", !.attempt = 1, !.calls = 1]]
    /\ UNCHANGED <<now, responseCache, cacheLog, validatorVars, cadVars, conv, jobVars>>

\* Backoff with the same delay after every attempt.
Backoff_SameDelay(q, t) ==
    [q EXCEPT !.pc = "delaying",
              !.wakeAt = t + retryDelay,
              !.delays = Append(@, retryDelay)]

\* The request record when the attempt ends in the backoff delay.
Backoff(q, t) ==
    [q EXCEPT !.pc = "delaying",
              !.wakeAt = t + retryDelay * q.attempt,
              !.delays = Append(@, retryDelay * q.attempt)]

\* Caught with a loop that has no attempt limit.
Caught_NoAttemptLimit(q, error, thrown, t) ==
    IF thrown # Undefined
    THEN [q EXCEPT !.lastError = error, !.pc = "failed", !.error = thrown]
    ELSE [Backoff(q, t) EXCEPT !.lastError = error]

\* Caught with 500 among the status codes that are thrown at once.
Caught_ThrowsAppErrors(q, error, thrown, t) ==
    IF thrown # Undefined \/ error.isAppError
    THEN [q EXCEPT !.lastError = error, !.pc = "failed",
                   !.error = IF thrown # Undefined THEN thrown ELSE error]
    ELSE IF q.attempt < maxRetries
    THEN [Backoff(q, t) EXCEPT !.lastError = error]
    ELSE [q EXCEPT !.lastError = error, !.pc = "failed",
                   !.error = Exhausted(error)]

\* The request record after the catch block caught error, which makes it
\* throw `thrown` to the caller unless that is Undefined.
Caught(q, error, thrown, t) ==
    IF thrown # Undefined
    THEN [q EXCEPT !.lastError = error, !.pc = "failed", !.error = thrown]
    ELSE IF q.attempt < maxRetries
    THEN [Backoff(q, t) EXCEPT !.lastError = error]
    ELSE [q EXCEPT !.lastError = error, !.pc = "failed",
                   !.error = Exhausted(error)]

\* AttemptEnds that caches only plans that passed validation.
AttemptEnds_CachesValidOnly(r, q, tb) ==
    IF ~tb.threw /\ ~tb.retry
    THEN /\ \E t2 \in IF tb.plan.validationWarnings = Undefined
                      THEN SweepReadings(responseCache, q.key) ELSE {now} :
                /\ responseCache' =
                       IF tb.plan.validationWarnings = Undefined
                       THEN setCache(responseCache, q.key,
                                     [plan |-> tb.plan, usage |-> tb.usage], now, t2)
                       ELSE responseCache
                /\ now' = t2
         /\ cacheLog' = Append(cacheLog,
                               [key |-> q.key,
                                data |-> [plan |-> tb.plan, usage |-> tb.usage],
                                at |-> now, by |-> r])
         /\ req' = [req EXCEPT ![r] =
                       [q EXCEPT !.pc = "returned",
                                 !.result = [plan |-> tb.plan, usage |-> tb.usage]]]
    ELSE /\ UNCHANGED <<now, responseCache, cacheLog>>
         /\ req' = [req EXCEPT ![r] =
                       IF ~tb.threw THEN Backoff(q, now)
                       ELSE Caught(q, tb.error, CatchBlock(tb.error), now)]

\* AttemptEnds that leaves an entry another request stored meanwhile.
AttemptEnds_FirstWriteStays(r, q, tb) ==
    IF ~tb.threw /\ ~tb.retry
    THEN /\ \E t2 \in IF getFromCache(responseCache, q.key, now) # Undefined
                      THEN {now} ELSE SweepReadings(responseCache, q.key) :
                /\ responseCache' =
                       IF getFromCache(responseCache, q.key, now) # Undefined
                       THEN responseCache
                       ELSE setCache(responseCache, q.key,
                                     [plan |-> tb.plan, usage |-> tb.usage], now, t2)
                /\ now' = t2
         /\ cacheLog' = Append(cacheLog,
                               [key |-> q.key,
                                data |-> [plan |-> tb.plan, usage |-> tb.usage],
                                at |-> now, by |-> r])
         /\ req' = [req EXCEPT ![r] =
                       [q EXCEPT !.pc = "returned",
                                 !.result = [plan |-> tb.plan, usage |-> tb.usage]]]
    ELSE /\ UNCHANGED <<now, responseCache, cacheLog>>
         /\ req' = [req EXCEPT ![r] =
                       IF ~tb.threw THEN Backoff(q, now)
                       ELSE Caught(q, tb.error, CatchBlock(tb.error), now)]

\* generatePlan from the settling of the provider call to the next await or
\* the end: q is the request, tb what the try block came to.
AttemptEnds(r, q, tb) ==
    IF ~tb.threw /\ ~tb.retry
    THEN /\ \E t2 \in SweepReadings(responseCache, q.key) :
                /\ responseCache' = setCache(responseCache, q.key,
                                             [plan |-> tb.plan, usage |-> tb.usage],
                                             now, t2)
                /\ now' = t2
         /\ cacheLog' = Append(cacheLog,
                               [key |-> q.key,
                                data |-> [plan |-> tb.plan, usage |-> tb.usage],
                                at |-> now, by |-> r])
         /\ req' = [req EXCEPT ![r] =
                       [q EXCEPT !.pc = "returned",
                                 !.result = [plan |-> tb.plan, usage |-> tb.usage]]]
    ELSE /\ UNCHANGED <<now, responseCache, cacheLog>>
         /\ req' = [req EXCEPT ![r] =
                       IF ~tb.threw THEN Backoff(q, now)
                       ELSE Caught(q, tb.error, CatchBlock(tb.error), now)]

\* The provider call of the current attempt settles with o; the attempt runs
\* to its next await, or to the end of generatePlan.
ProviderReply(r, o) ==
    /\ req[r].pc = "calling"
    /\ AttemptEnds(r, [req[r] EXCEPT !.outcomes = Append(@, o)],
                   TryBlock(o, MetaOf(req[r].key), req[r].attempt))
    /\ UNCHANGED <<validatorVars, cadVars, conv, jobVars>>

\* The backoff timer fires, no earlier than wakeAt: the next iteration of the
\* loop calls the provider.
DelayDone(r) ==
    /\ req[r].pc = "delaying"
    /\ now' = Max(now, req[r].wakeAt)
    /\ req' = [req EXCEPT ![r] = [@ EXCEPT !.pc = "calling",
                                           !.attempt = @ + 1,
                                           !.calls = @ + 1]]
    /\ UNCHANGED <<responseCache, cacheLog, validatorVars, cadVars, conv, jobVars>>

\* Time passes: half a cache lifetime.
TickStep == cacheMaxAge \div 2

Tick ==
    /\ now < MaxTicks * TickStep
    /\ now' = now + TickStep
    /\ UNCHANGED <<plannerVars, validatorVars, cadVars, conv, jobVars>>

-----------------------------------------------------------------------------
(* Validator harness: parseAndValidateResponse, then validatePlanGeometry,  *)
(* on a raw plan drawn from a bounded set.                                  *)

RoomChoices ==
    {RawRoom(n, "", a, d, p) :
        n \in {"Living Room", "Bath"}, a \in {UNDEF, 30},
        d \in {Undefined, Dims(16, 14)}, p \in {Undefined, Pos(16, 0)}}

RoomLists ==
    UNION {[1..n -> RoomChoices] : n \in 1..MaxRooms}

UpperFloors ==
    {<<>>, <<RawFloor(Arr(<<RoomA>>))>>, <<RawFloor(Arr(<<RoomB, RoomBare>>))>>,
     <<RawFloor(Arr(<<RoomB>>))>>}

\* Rooms at, just inside and just outside the edges of a 40 x 30 building.
BoundsRooms ==
    {RawRoom(n, "", UNDEF, Dims(16, 14), p) :
        n \in {"Living Room", "Bath"},
        p \in {Pos(25, 17), Pos(26, 17), Pos(25, 18), Pos(0 - 2, 0), Pos(0, 0 - 2)}}

BoundsInputs ==
    {Json(RawPlan(Arr(<<RawFloor(Arr(rooms))>>), Building4030), 100) :
        rooms \in UNION {[1..n -> BoundsRooms] : n \in 1..2}}

\* Rooms with and without an id of the provider's, among them the id the
\* normalizer makes for the second room of the ground floor.
IdRooms ==
    {[RoomA EXCEPT !.id = id] : id \in {"", "r1", "room-0-1"}}

\* Plans of one and two floors over these rooms.
IdInputs ==
    {Json(RawPlan(Arr(<<RawFloor(Arr(rooms))>> \o upper), Building4030), 100) :
        rooms \in [1..2 -> IdRooms],
        upper \in {<<>>} \cup {<<RawFloor(Arr(<<room>>))>> : room \in IdRooms}}

\* A room in which the provider wrote every field, with area a.
FullRoom(a) ==
    [id |-> "r1", name |-> "Bath", type |-> "bathroom", areaSqft |-> a,
     dimensions |-> Dims(16, 14), position |-> Pos(16, 0),
     doors |-> Arr(<<"door">>), windows |-> Arr(<<"window">>)]

\* Areas as the provider can write them: none, zero, a positive number.
RawAreas(a) == {UNDEF, 0, a}

\* The fields of a plan besides its floors and totalArea: all written, or
\* none but the building dimensions, or none.
PlanExtras ==
    {[buildingType |-> "Villa", buildingDimensions |-> Building4030,
      exterior |-> [style |-> "classic"], designNotes |-> Arr(<<"note">>)],
     [buildingType |-> "", buildingDimensions |-> Building4030,
      exterior |-> Undefined, designNotes |-> Undefined],
     [buildingType |-> "", buildingDimensions |-> Undefined,
      exterior |-> Undefined, designNotes |-> Undefined]}

\* One-floor plans whose fields are written, written as zero, or left out.
FieldInputs ==
    {Json([buildingType |-> x.buildingType,
           floors |-> Arr(<<[level |-> level, rooms |-> Arr(rooms),
                             totalArea |-> floorArea]>>),
           buildingDimensions |-> x.buildingDimensions,
           totalArea |-> planArea, exterior |-> x.exterior,
           designNotes |-> x.designNotes, validationWarnings |-> Undefined], 100) :
        x \in PlanExtras, level \in {"", "Basement"},
        floorArea \in RawAreas(50), planArea \in RawAreas(70),
        rooms \in {<<FullRoom(a)>> : a \in RawAreas(30)}
                  \cup {<<FullRoom(a), RawRoom("", "", b, Undefined, Undefined)>> :
                           a \in RawAreas(30), b \in RawAreas(30)}}

RawInputs ==
    {Json(RawPlan(Arr(<<RawFloor(Arr(rooms))>> \o upper), b), 100) :
        rooms \in RoomLists, upper \in UpperFloors, b \in {Undefined, Building4030}}
    \cup {ContentNoFloors, ContentNoRooms, ContentText}
    \cup BoundsInputs
    \cup IdInputs
    \cup FieldInputs

VParse ==
    /\ vpc = "raw"
    /\ vplan' = parseAndValidateResponse(vin, MetaOf(1))
    /\ vpc' = IF vplan'.ok THEN "parsed" ELSE "rejected"
    /\ UNCHANGED <<now, plannerVars, vin, vres, cadVars, conv, jobVars>>

VValidate ==
    /\ vpc = "parsed"
    /\ vres' = validatePlanGeometry(vplan.plan)
    /\ vpc' = "validated"
    /\ UNCHANGED <<now, plannerVars, vin, vplan, cadVars, conv, jobVars>>

\* roomsOverlap on its own.  Here the rooms' numbers are half feet, so that
\* rooms half a foot apart or half a foot into each other occur: vin is the
\* pair of rooms, vres the value returned.
HalfFootRooms ==
    {[position |-> [x |-> x, y |-> y], dimensions |-> [width |-> w, length |-> l]] :
        x \in 0..MaxHalfFeet, y \in 0..1, w \in 1..MaxHalfFeet, l \in 2..3}

VOverlap ==
    /\ vpc = "rooms"
    /\ vres' = RectsOverlap2(Rect(vin[1]), Rect(vin[2]))
    /\ vpc' = "compared"
    /\ UNCHANGED <<now, plannerVars, vin, vplan, cadVars, conv, jobVars>>

-----------------------------------------------------------------------------
(* DWG converter *)

\* A Buffer: converted DWG bytes (content "dwg") or the bytes of the DXF text
\* itself (content "dxf").
Buffer(content, text, by) ==
    [isBuffer |-> TRUE, content |-> content, text |-> text, by |-> by]

BufferFrom(dxfContent) == Buffer("dxf", dxfContent, "")

Returned(value) == [threw |-> FALSE, value |-> value]
Thrown(message) == [threw |-> TRUE, message |-> message]

\* convertWithCloudConvert: outcome is what the remote service does.
convertWithCloudConvert(dxfContent, apiKey, outcome) ==
    IF ~apiKey THEN Thrown("CloudConvert API key not configured")
    ELSE IF outcome = "ok" THEN Returned(Buffer("dwg", dxfContent, "cloudconvert"))
    ELSE Thrown("CloudConvert error")

-----------------------------------------------------------------------------
(* DWG converter: the local tools and their temporary files.  A path in    *)
(* os.tmpdir() is [kind, stamp]: floor-plan-<stamp>.dxf, floor-plan-<stamp> *)
(* .dwg, the directory dxf-input-<stamp> or the directory dwg-output-       *)
(* <stamp>.  A directory is held with the one file the converter puts in it *)
(* (floor-plan.dxf, floor-plan.dwg) as its content.                         *)

NoFile == [format |-> "", text |-> ""]

\* The content at path p of disk d; Undefined when nothing is there.
FileAt(d, p) ==
    IF \E f \in d : f.path = p
    THEN (CHOOSE f \in d : f.path = p).content
    ELSE Undefined

\* fs.writeFileSync(p, content)
WriteFile(d, p, content) ==
    {f \in d : f.path # p} \cup {[path |-> p, content |-> content]}

\* fs.mkdirSync(p, {recursive: true})
MakeDir(d, p) ==
    IF FileAt(d, p) # Undefined THEN d ELSE d \cup {[path |-> p, content |-> NoFile]}

IdleTool ==
    [pc |-> "idle", method |-> "", dxf |-> "", inPath |-> Undefined,
     outPath |-> Undefined, execOk |-> FALSE, result |-> Undefined]

\* The two paths a conversion names, from its two readings of Date.now().
ToolPaths(method, t1, t2) ==
    IF method = "libredwg"
    THEN [inPath |-> [kind |-> "dxf", stamp |-> t1],
          outPath |-> [kind |-> "dwg", stamp |-> t2]]
    ELSE [inPath |-> [kind |-> "dxf-input", stamp |-> t1],
          outPath |-> [kind |-> "dwg-output", stamp |-> t2]]

\* The disk after the writes that precede the await of execAsync.
ToolWrites(d, method, paths, dxfContent) ==
    IF method = "libredwg"
    THEN WriteFile(d, paths.inPath, [format |-> "dxf", text |-> dxfContent])
    ELSE WriteFile(MakeDir(MakeDir(d, paths.inPath), paths.outPath),
                   paths.inPath, [format |-> "dxf", text |-> dxfContent])

\* The locals of convertWithLibreDWG(dxfContent) or convertWithODA(dxfContent)
\* at the await of execAsync; t1 and t2 are its two readings of Date.now().
LocalTool(method, dxfContent, t1, t2) ==
    [IdleTool EXCEPT !.pc = "exec", !.method = method, !.dxf = dxfContent,
                     !.inPath = ToolPaths(method, t1, t2).inPath,
                     !.outPath = ToolPaths(method, t1, t2).outPath]

\* convertWithLibreDWG(dxfContent) or convertWithODA(dxfContent) up to the
\* await of execAsync; t2 is the second reading of Date.now().
ToolStart(c, method, dxfContent, t2) ==
    /\ tool[c].pc = "idle"
    /\ now' = t2
    /\ disk' = ToolWrites(disk, method, ToolPaths(method, now, t2), dxfContent)
    /\ tool' = [tool EXCEPT ![c] = LocalTool(method, dxfContent, now, t2)]
    /\ UNCHANGED <<plannerVars, validatorVars, cadVars, conv, poll>>

\* The tool's process, given that it works, converts: it writes the DWG of
\* what is at its input path to its output path.  It fails when there is no
\* drawing at the input path, or no output directory to write to.
ToolConverts(k, d) ==
    /\ FileAt(d, k.inPath) # Undefined
    /\ FileAt(d, k.inPath).format = "dxf"
    /\ k.method = "oda" => FileAt(d, k.outPath) # Undefined

\* The disk when the process of the tool has ended.
Exited(k, d, works) ==
    IF works /\ ToolConverts(k, d)
    THEN WriteFile(d, k.outPath,
                   [format |-> "dwg", text |-> FileAt(d, k.inPath).text])
    ELSE d

\* The locals of conversion k when the process of its tool has ended, its
\* callback not yet run.
ExitedTool(k, d, works) ==
    [k EXCEPT !.pc = "exited", !.execOk = works /\ ToolConverts(k, d)]

\* The process of the tool ends: execAsync settles.
ToolExit(c, works) ==
    /\ tool[c].pc = "exec"
    /\ disk' = Exited(tool[c], disk, works)
    /\ tool' = [tool EXCEPT ![c] = ExitedTool(tool[c], disk, works)]
    /\ UNCHANGED <<now, plannerVars, validatorVars, cadVars, conv, poll>>

\* The try block after the await: fs.readFileSync of the output throws when
\* execAsync rejected (the block is left before) or no DWG file is there.
ToolThrows(k, d) ==
    \/ ~k.execOk
    \/ FileAt(d, k.outPath) = Undefined
    \/ FileAt(d, k.outPath).format # "dwg"

\* convertWithLibreDWG(dxfContent) from the callback of exec on, for the
\* conversion of locals k on disk d: the bytes read, or from the catch block
\* the bytes of the drawing itself.
convertWithLibreDWG(k, d) ==
    IF ~ToolThrows(k, d)
    THEN Returned(Buffer("dwg", FileAt(d, k.outPath).text, "libredwg"))
    ELSE Returned(BufferFrom(k.dxf))

\* convertWithODA(dxfContent) from the callback of exec on: the bytes read,
\* or the error, which the catch block throws again.
convertWithODA(k, d) ==
    IF ~ToolThrows(k, d)
    THEN Returned(Buffer("dwg", FileAt(d, k.outPath).text, "oda"))
    ELSE Thrown("ODA converter error")

\* What the conversion comes to.
ToolResult(k, d) ==
    IF k.method = "libredwg" THEN convertWithLibreDWG(k, d)
    ELSE convertWithODA(k, d)

\* Cleanup that is the last statement of the try block.
Cleanup_OnSuccessOnly(k, d) ==
    IF ToolThrows(k, d) THEN d
    ELSE {f \in d : f.path \notin {k.inPath, k.outPath}}

\* The finally block: both paths are removed if they exist.
Cleanup(k, d) == {f \in d : f.path \notin {k.inPath, k.outPath}}

\* The conversion goes on after the await, to its end.
ToolResume(c) ==
    /\ tool[c].pc = "exited"
    /\ tool' = [tool EXCEPT ![c] =
                   [@ EXCEPT !.pc = "done", !.result = ToolResult(tool[c], disk)]]
    /\ disk' = Cleanup(tool[c], disk)
    /\ UNCHANGED <<now, plannerVars, validatorVars, cadVars, conv, poll>>

\* A millisecond passes.
ToolTick ==
    /\ now < MaxToolTicks
    /\ now' = now + 1
    /\ UNCHANGED <<plannerVars, validatorVars, cadVars, conv, jobVars>>

-----------------------------------------------------------------------------
(* DWG converter: convertDXFtoDWG.  A call holds, while a local tool runs,  *)
(* the locals of that tool's conversion.  The conversion by the remote      *)
(* service is one await: its requests, sleeps and download touch neither    *)
(* the disk nor the clock readings of the converter.                        *)

tryOrder == <<"cloudconvert", "libredwg", "oda">>

\* The value convertDXFtoDWG returns after the loop.
FallbackResult(dxfContent) ==
    [isBuffer |-> FALSE, buffer |-> BufferFrom(dxfContent), format |-> "dxf",
     message |-> "DWG conversion unavailable, returning DXF format (compatible with AutoCAD)"]

\* The index in tryOrder of the first method from i on that the loop runs
\* (cloudconvert is skipped without an API key); Len(tryOrder) + 1 when none.
NextMethod(i, apiKey) ==
    IF i <= Len(tryOrder) /\ tryOrder[i] = "cloudconvert" /\ ~apiKey
    THEN i + 1 ELSE i

\* method is options.method; idx the place in tryOrder of the method being
\* awaited (0: none); tool the locals of the local tool's conversion.
\* History: tried.
IdleConv ==
    [pc |-> "idle", dxf |-> "", apiKey |-> FALSE, method |-> "auto", idx |-> 0,
     tried |-> <<>>, tool |-> IdleTool, result |-> Undefined, error |-> ""]

\* methods[m](dxfContent) up to its await, on disk d: a local tool names its
\* temporary paths from two readings t1 and t2 of Date.now() and writes the
\* drawing; the remote conversion reads no clock.  The call's record, the
\* disk and the clock afterwards.
MethodBegins(k, d, t1, t2) ==
    IF tryOrder[k.idx] = "cloudconvert"
    THEN [conv |-> [k EXCEPT !.tool = IdleTool], disk |-> d, now |-> t1]
    ELSE [conv |-> [k EXCEPT !.tool = LocalTool(tryOrder[k.idx], k.dxf, t1, t2)],
          disk |-> ToolWrites(d, tryOrder[k.idx],
                              ToolPaths(tryOrder[k.idx], t1, t2), k.dxf),
          now |-> t2]

\* The place of options.method in tryOrder.
MethodIndex(method) == CHOOSE i \in 1..Len(tryOrder) : tryOrder[i] = method

\* convertDXFtoDWG(dxfContent, {method}) up to its first await, on disk d
\* with the clock at t1: the call's record, the disk and the clock.  With
\* options.method "cloudconvert" and no API key the promise returned is
\* rejected already: convertWithCloudConvert throws before it awaits.
convertDXFtoDWG(dxfContent, apiKey, method, d, t1, t2) ==
    IF method = "cloudconvert" /\ ~apiKey
    THEN [conv |-> [IdleConv EXCEPT
                       !.pc = "failed", !.dxf = dxfContent, !.apiKey = apiKey,
                       !.method = method,
                       !.error = convertWithCloudConvert(dxfContent, apiKey,
                                                         "fail").message],
          disk |-> d, now |-> t1]
    ELSE MethodBegins([IdleConv EXCEPT !.pc = "running", !.dxf = dxfContent,
                                       !.apiKey = apiKey, !.method = method,
                                       !.idx = IF method = "auto"
                                               THEN NextMethod(1, apiKey)
                                               ELSE MethodIndex(method)],
                      d, t1, t2)

ConvStart(c, dxfContent, apiKey, method, t2) ==
    /\ conv[c].pc = "idle"
    /\ conv' = [conv EXCEPT ![c] =
                   convertDXFtoDWG(dxfContent, apiKey, method, disk, now, t2).conv]
    /\ disk' = convertDXFtoDWG(dxfContent, apiKey, method, disk, now, t2).disk
    /\ now' = convertDXFtoDWG(dxfContent, apiKey, method, disk, now, t2).now
    /\ UNCHANGED <<plannerVars, validatorVars, cadVars, poll, tool>>

\* The call whose awaited method came to res, with the clock at t1 and on
\* the disk d the method left: it returns or rejects, or the loop goes on to
\* the next method, which reads the clock again (t1, then t2).  outcome is
\* kept as history.
ConvAfter(k, res, outcome, d, t1, t2) ==
    IF ~res.threw
    THEN [conv |-> [k EXCEPT !.pc = "done", !.result = res.value, !.tool = IdleTool,
                             !.tried = Append(@, [m |-> tryOrder[k.idx],
                                                  outcome |-> outcome])],
          disk |-> d, now |-> t1]
    ELSE IF k.method # "auto"
    THEN [conv |-> [k EXCEPT !.pc = "failed", !.error = res.message, !.tool = IdleTool,
                             !.tried = Append(@, [m |-> tryOrder[k.idx],
                                                  outcome |-> outcome])],
          disk |-> d, now |-> t1]
    ELSE IF NextMethod(k.idx + 1, k.apiKey) <= Len(tryOrder)
    THEN MethodBegins([k EXCEPT !.idx = NextMethod(k.idx + 1, k.apiKey),
                                !.tried = Append(@, [m |-> tryOrder[k.idx],
                                                     outcome |-> outcome])],
                      d, t1, t2)
    ELSE [conv |-> [k EXCEPT !.pc = "done", !.result = FallbackResult(k.dxf),
                             !.tool = IdleTool,
                             !.tried = Append(@, [m |-> tryOrder[k.idx],
                                                  outcome |-> outcome])],
          disk |-> d, now |-> t1]

\* Call k awaits the remote conversion, which settles: outcome is what the
\* service does.
CloudSettles(k, d, outcome, t1, t2) ==
    ConvAfter(k, convertWithCloudConvert(k.dxf, k.apiKey, outcome), outcome,
              d, t1, t2)

\* Call k awaits a local tool whose process has ended: the callback of exec
\* runs, the conversion reads its output and its finally block removes its
\* paths.  History: whether the tool's process converted.
ToolResumes(k, d, t1, t2) ==
    ConvAfter(k, ToolResult(k.tool, d),
              IF k.tool.execOk THEN "ok" ELSE "fail",
              Cleanup(k.tool, d), t1, t2)

\* The remote conversion the call awaits settles; the loop goes on to the
\* next await or convertDXFtoDWG returns or rejects.
ConvSettle(c, outcome, t2) ==
    /\ conv[c].pc = "running"
    /\ tryOrder[conv[c].idx] = "cloudconvert"
    /\ conv' = [conv EXCEPT ![c] = CloudSettles(conv[c], disk, outcome, now, t2).conv]
    /\ disk' = CloudSettles(conv[c], disk, outcome, now, t2).disk
    /\ now' = CloudSettles(conv[c], disk, outcome, now, t2).now
    /\ UNCHANGED <<plannerVars, validatorVars, cadVars, poll, tool>>

\* The process of the local tool the call awaits ends: it has written its
\* output or it has failed; the callback of exec has not run yet.
ConvToolExit(c, works) ==
    /\ conv[c].pc = "running"
    /\ conv[c].tool.pc = "exec"
    /\ conv' = [conv EXCEPT ![c].tool = ExitedTool(conv[c].tool, disk, works)]
    /\ disk' = Exited(conv[c].tool, disk, works)
    /\ UNCHANGED <<now, plannerVars, validatorVars, cadVars, poll, tool>>

\* The callback of exec runs: the local conversion goes on to its end, and
\* the loop to the next await or to the return of convertDXFtoDWG.
ConvResume(c, t2) ==
    /\ conv[c].pc = "running"
    /\ conv[c].tool.pc = "exited"
    /\ conv' = [conv EXCEPT ![c] = ToolResumes(conv[c], disk, now, t2).conv]
    /\ disk' = ToolResumes(conv[c], disk, now, t2).disk
    /\ now' = ToolResumes(conv[c], disk, now, t2).now
    /\ UNCHANGED <<plannerVars, validatorVars, cadVars, poll, tool>>

\* The caller takes the result or the error; the slot is free for another
\* call.
ConvReturn(c) ==
    /\ conv[c].pc \in {"done", "failed"}
    /\ conv' = [conv EXCEPT ![c] = IdleConv]
    /\ UNCHANGED <<now, plannerVars, validatorVars, cadVars, jobVars>>

-----------------------------------------------------------------------------
(* DWG converter: pollJobStatus *)

\* i is the loop variable; history: requests is the number of status
\* requests made, sleeps the number of sleep(2000) calls that have ended, and
\* last how the latest status request settled.
IdlePoll ==
    [pc |-> "idle", i |-> 0, requests |-> 0, sleeps |-> 0, job |-> Undefined,
     error |-> "", last |-> ""]

\* pollJobStatus(apiKey, jobId) up to its first await, the sleep.
PollStart ==
    /\ poll.pc = "idle"
    /\ poll' = [poll EXCEPT !.pc = "sleeping"]
    /\ UNCHANGED <<now, plannerVars, validatorVars, cadVars, conv, tool, disk>>

\* sleep(2000) ends and the status request is made.
PollWake ==
    /\ poll.pc = "sleeping"
    /\ now' = now + pollInterval
    /\ poll' = [poll EXCEPT !.pc = "requesting", !.sleeps = @ + 1,
                            !.requests = @ + 1]
    /\ UNCHANGED <<plannerVars, validatorVars, cadVars, conv, tool, disk>>

\* PollAfter that goes round the loop once more.
PollAfter_OneMore(p, status) ==
    IF status = "rejected"
    THEN [p EXCEPT !.pc = "failed", !.error = "Request failed"]
    ELSE IF status = "finished"
    THEN [p EXCEPT !.pc = "returned", !.job = [status |-> status]]
    ELSE IF status = "error"
    THEN [p EXCEPT !.pc = "failed", !.error = "Conversion failed: Unknown error"]
    ELSE IF p.i + 1 < maxAttempts + 1
    THEN [p EXCEPT !.pc = "sleeping", !.i = @ + 1]
    ELSE [p EXCEPT !.pc = "failed", !.i = @ + 1,
                   !.error = "Job timeout: conversion took too long"]

\* The call after the status request settled: rejected, or answered with a
\* job in the given status.
PollAfter(p, status) ==
    IF status = "rejected"
    THEN [p EXCEPT !.pc = "failed", !.error = "Request failed"]
    ELSE IF status = "finished"
    THEN [p EXCEPT !.pc = "returned", !.job = [status |-> status]]
    ELSE IF status = "error"
    THEN [p EXCEPT !.pc = "failed", !.error = "Conversion failed: Unknown error"]
    ELSE IF p.i + 1 < maxAttempts
    THEN [p EXCEPT !.pc = "sleeping", !.i = @ + 1]
    ELSE [p EXCEPT !.pc = "failed", !.i = @ + 1,
                   !.error = "Job timeout: conversion took too long"]

\* The status request settles; the loop runs to its next await or
\* pollJobStatus ends.
PollReply(status) ==
    /\ poll.pc = "requesting"
    /\ poll' = [PollAfter(poll, status) EXCEPT !.last = status]
    /\ UNCHANGED <<now, plannerVars, validatorVars, cadVars, conv, tool, disk>>

-----------------------------------------------------------------------------
(* CAD service.  The text that is hashed is a sequence of UTF-16 code units. *)
(* A request is [planData, floorIndex, scale, outputFormats].               *)

\* The UTF-16 code units of the strings that plans are made of.
CharCodes(s) ==
    CASE s = "House" -> <<72, 111, 117, 115, 101>>
      [] s = "Ground" -> <<71, 114, 111, 117, 110, 100>>
      [] s = "First" -> <<70, 105, 114, 115, 116>>
      [] s = "Aa" -> <<65, 97>>
      [] s = "BB" -> <<66, 66>>

\* String(n) for a natural number.
RECURSIVE NumText(_)
NumText(n) ==
    IF n < 10 THEN <<48 + n>> ELSE NumText(n \div 10) \o <<48 + (n % 10)>>

\* JSON.stringify of a string with no character that needs escaping.
JsonString(s) == <<34>> \o CharCodes(s) \o <<34>>

\* JSON.stringify of buildingDimensions.
JsonDimensions(d) ==
    LET OpenWidth ==  \* {"width":
            <<123, 34, 119, 105, 100, 116, 104, 34, 58>>
        CommaDepth ==  \* ,"depth":
            <<44, 34, 100, 101, 112, 116, 104, 34, 58>>
    IN  OpenWidth \o NumText(d.width) \o CommaDepth \o NumText(d.depth)
        \o <<125>>

\* JSON.stringify of a floor {level, rooms, totalArea} without rooms.
JsonFloor(floor) ==
    LET OpenLevel ==  \* {"level":
            <<123, 34, 108, 101, 118, 101, 108, 34, 58>>
        CommaRooms ==  \* ,"rooms":
            <<44, 34, 114, 111, 111, 109, 115, 34, 58>>
        CommaTotalArea ==  \* ,"totalArea":
            <<44, 34, 116, 111, 116, 97, 108, 65, 114, 101, 97, 34, 58>>
    IN  OpenLevel \o JsonString(floor.level) \o CommaRooms \o <<91, 93>>
        \o CommaTotalArea \o NumText(floor.totalArea) \o <<125>>

\* planData.floors[floorIndex] with an index past the end read as the last
\* floor.
FloorAt_Clamped(planData, floorIndex) ==
    IF floorIndex + 1 \in 1..Len(planData.floors.items)
    THEN planData.floors.items[floorIndex + 1]
    ELSE planData.floors.items[Len(planData.floors.items)]

\* planData.floors[floorIndex]
FloorAt(planData, floorIndex) ==
    IF floorIndex + 1 \in 1..Len(planData.floors.items)
    THEN planData.floors.items[floorIndex + 1]
    ELSE Undefined

\* planStr of generateCacheKey: JSON.stringify leaves out the properties
\* whose value is undefined.
planStr(planData, floorIndex, scale) ==
    LET OpenBuildingType ==  \* {"buildingType":
            <<123, 34, 98, 117, 105, 108, 100, 105, 110, 103, 84, 121, 112,
             101, 34, 58>>
        CommaDimensions ==  \* ,"dimensions":
            <<44, 34, 100, 105, 109, 101, 110, 115, 105, 111, 110, 115, 34,
             58>>
        CommaFloor ==  \* ,"floor":
            <<44, 34, 102, 108, 111, 111, 114, 34, 58>>
        CommaScale ==  \* ,"scale":
            <<44, 34, 115, 99, 97, 108, 101, 34, 58>>
    IN  OpenBuildingType \o JsonString(planData.buildingType)
        \o (IF planData.buildingDimensions = Undefined THEN <<>>
            ELSE CommaDimensions \o JsonDimensions(planData.buildingDimensions))
        \o (IF FloorAt(planData, floorIndex) = Undefined THEN <<>>
            ELSE CommaFloor \o JsonFloor(FloorAt(planData, floorIndex)))
        \o CommaScale \o NumText(scale) \o <<125>>

\* hash = ((hash << 5) - hash) + char; hash = hash & hash, which is
\* 31 * hash + char wrapped to 32 bits.  A 32-bit value is held as two 16-bit
\* halves, 65536 * hi + lo.
HashStep(hash, char) ==
    [hi |-> (31 * hash.hi + (31 * hash.lo + char) \div 65536) % 65536,
     lo |-> (31 * hash.lo + char) % 65536]

\* let hash = 0; for (i = 0; i < planStr.length; i++) { ... }: over[from, to,
\* hash] is the loop over text[from..to] started with hash.  The range is
\* walked in two halves, left then right, which visits the same characters
\* in the same order.
HashOf(text) ==
    LET over[from \in 1..(Len(text) + 1), to \in 0..Len(text),
             hash \in [hi : 0..65535, lo : 0..65535]] ==
            IF from > to THEN hash
            ELSE IF from = to THEN HashStep(hash, text[from])
            ELSE over[(from + to) \div 2 + 1, to,
                      over[from, (from + to) \div 2, hash]]
    IN  over[1, Len(text), [hi |-> 0, lo |-> 0]]

\* The halves read as a signed 32-bit integer.
ToInt32(hash) ==
    IF hash.hi >= 32768 THEN (hash.hi - 65536) * 65536 + hash.lo
    ELSE hash.hi * 65536 + hash.lo

\* generateCacheKey with the whole plan hashed.
generateCacheKey_WholePlan(planData, floorIndex, scale) ==
    [hash |-> ToInt32(HashOf(planStr(planData, floorIndex, scale)
                             \o NumText(planData.totalArea))),
     floorIndex |-> floorIndex, scale |-> scale]

\* generateCacheKey: the key `cad_${hash}_${floorIndex}_${scale}` as the
\* record of its three numbers.
generateCacheKey(planData, floorIndex, scale) ==
    [hash |-> ToInt32(HashOf(planStr(planData, floorIndex, scale))),
     floorIndex |-> floorIndex, scale |-> scale]

\* The drawing generateDXF writes, as the values its text is made from: the
\* extents of the header, the outline, the rooms, the title and the footer.
\* Everything else in the text is fixed.
DxfText(planData, floor, scale) ==
    [extmax |-> IF planData.buildingDimensions = Undefined
                THEN [x |-> 50 * scale, y |-> 40 * scale]
                ELSE [x |-> planData.buildingDimensions.width * scale,
                      y |-> planData.buildingDimensions.depth * scale],
     outline |-> planData.buildingDimensions # Undefined,
     rooms |-> floor.rooms.items,
     title |-> planData.buildingType,
     footer |-> [level |-> floor.level, totalArea |-> floor.totalArea],
     scale |-> scale]

\* generateDXF(planData, floorIndex, {scale})
generateDXF(planData, floorIndex, scale) ==
    IF FloorAt(planData, floorIndex) = Undefined
    THEN Thrown("Floor index not found")
    ELSE Returned(DxfText(planData, FloorAt(planData, floorIndex), scale))

\* result.metadata without its clock readings (generatedAt,
\* generationTimeMs).
Metadata(planData, floorIndex, scale) ==
    [buildingType |-> planData.buildingType,
     floorLevel |-> IF FloorAt(planData, floorIndex) = Undefined
                    THEN "Ground Floor"
                    ELSE FloorAt(planData, floorIndex).level,
     totalArea |-> IF FloorAt(planData, floorIndex) = Undefined THEN 0
                   ELSE FloorAt(planData, floorIndex).totalArea,
     roomCount |-> IF FloorAt(planData, floorIndex) = Undefined THEN 0
                   ELSE Len(FloorAt(planData, floorIndex).rooms.items),
     scale |-> scale]

\* A file entry of the result; filename is its extension (the name's other
\* parts are the building type, the floor level and Date.now()).
File(content, extension, mimeType, note) ==
    [content |-> content, filename |-> extension, mimeType |-> mimeType,
     note |-> note]

\* result.files.dwg and the warning pushed for what convertDXFtoDWG returned.
DwgFile(dwgResult) ==
    IF ~dwgResult.isBuffer /\ dwgResult.format = "dxf"
    THEN File(dwgResult.buffer, "dxf", "application/dxf",
              "DWG conversion unavailable - DXF provided instead")
    ELSE File(dwgResult, "dwg", "application/acad", "")

DwgWarnings(dwgResult) ==
    IF ~dwgResult.isBuffer /\ dwgResult.format = "dxf"
    THEN <<dwgResult.message>> ELSE <<>>

DxfFile(input, dxfContent) ==
    IF input.outputFormats.dxf
    THEN File(dxfContent, "dxf", "application/dxf", "")
    ELSE Undefined

\* The result object of an export that did not fail; dwg is Undefined when
\* the format was not requested.
ExportResult(input, dxfContent, dwg, warnings) ==
    [success |-> TRUE,
     files |-> [dxf |-> DxfFile(input, dxfContent), dwg |-> dwg],
     metadata |-> Metadata(input.planData, input.floorIndex, input.scale),
     warnings |-> warnings]

\* What the outer catch block returns.
FailedResult(input, message) ==
    [success |-> FALSE, error |-> message,
     metadata |-> Metadata(input.planData, input.floorIndex, input.scale)]

\* EnforceMaxSize with > for >=.
EnforceMaxSize_OffByOne(m) ==
    IF Len(m) > MAX_CACHE_SIZE THEN MapDelete(m, m[1].key) ELSE m

\* EnforceMaxSize deleting the entry with the oldest timestamp.
EnforceMaxSize_OldestTimestamp(m) ==
    IF Len(m) >= MAX_CACHE_SIZE
    THEN MapDelete(m, m[CHOOSE i \in 1..Len(m) :
                            \A j \in 1..Len(m) :
                                \/ m[i].timestamp < m[j].timestamp
                                \/ m[i].timestamp = m[j].timestamp /\ i <= j].key)
    ELSE m

\* The Map after the size check of cacheResult: the first key in insertion
\* order is deleted when the Map is full.
EnforceMaxSize(m) ==
    IF Len(m) >= MAX_CACHE_SIZE THEN MapDelete(m, m[1].key) ELSE m

\* cacheResult(key, data) at time t.  seq is history: the number the key got
\* when it was added to the Map (an entry that is overwritten keeps it).
CacheEntry(m, key, data, t, n) ==
    [key |-> key, data |-> data, timestamp |-> t,
     seq |-> IF MapHas(m, key) THEN MapGet(m, key).seq ELSE n + 1]

cacheResult(m, key, data, t, n) ==
    MapSet(EnforceMaxSize(m), CacheEntry(EnforceMaxSize(m), key, data, t, n))

\* The floor of area k, on the ground.
CadFloor(k) == [level |-> "Ground", rooms |-> Arr(<<>>), totalArea |-> k]

\* An upper floor.
UpperFloor == [level |-> "First", rooms |-> Arr(<<>>), totalArea |-> 9]

\* A plan whose ground floor has area k, followed by the floors of upper.
CadPlan(k, upper) ==
    [buildingType |-> "House", buildingDimensions |-> Building4030,
     floors |-> Arr(<<CadFloor(k)>> \o upper),
     totalArea |-> k + 9 * Len(upper)]

\* generateCacheKey of the ground floor of the one-floor plans, each
\* computed once.
GroundKeys ==
    [k \in 1..(MAX_CACHE_SIZE + CadExtraKeys) |->
        generateCacheKey(CadPlan(k, <<>>), 0, 1)]

\* generateCacheKey(planData, floorIndex, scale), looked up in GroundKeys
\* where the request is one of those.
CacheKeyOf(planData, floorIndex, scale) ==
    IF /\ floorIndex = 0
       /\ scale = 1
       /\ Len(planData.floors.items) = 1
       /\ planData.floors.items[1].totalArea \in DOMAIN GroundKeys
       /\ planData = CadPlan(planData.floors.items[1].totalArea, <<>>)
    THEN GroundKeys[planData.floors.items[1].totalArea]
    ELSE generateCacheKey(planData, floorIndex, scale)

\* conv is the convertDXFtoDWG call the request awaits.
IdleCadReq == [pc |-> "idle", input |-> Undefined, conv |-> IdleConv]

\* generateCADFiles caches result under cacheKey and returns it.
CadCache(r, input, cacheKey, result) ==
    /\ cache' = cacheResult(cache, cacheKey, result, now, cadSeq)
    /\ cadSeq' = IF MapHas(EnforceMaxSize(cache), cacheKey)
                 THEN cadSeq ELSE cadSeq + 1
    /\ cadLast' = [kind |-> "cached", input |-> input, key |-> cacheKey,
                   response |-> result]
    /\ cadReq' = [cadReq EXCEPT ![r] = IdleCadReq]

\* generateCADFiles calls convertDXFtoDWG(dxfContent) and awaits it; the
\* service is configured with an API key or it is not.  t2 is the second
\* reading of Date.now() of a local tool that begins.
CadConvert(r, input, dxfContent, t2) ==
    /\ \E apiKey \in BOOLEAN :
          /\ cadReq' = [cadReq EXCEPT ![r] =
                           [pc |-> "converting", input |-> input,
                            conv |-> convertDXFtoDWG(dxfContent, apiKey, "auto",
                                                     disk, now, t2).conv]]
          /\ disk' = convertDXFtoDWG(dxfContent, apiKey, "auto", disk, now, t2).disk
          /\ now' = convertDXFtoDWG(dxfContent, apiKey, "auto", disk, now, t2).now
    /\ UNCHANGED <<cache, cadSeq, cadLast>>

\* The cache check of generateCADFiles with the entry written again on a
\* hit.
CadLookup_TouchesEntry(r, input, cacheKey) ==
    /\ MapHas(cache, cacheKey)
    /\ now - MapGet(cache, cacheKey).timestamp < CACHE_TTL
    /\ cadLast' = [kind |-> "hit", input |-> input, key |-> cacheKey,
                   response |-> MapGet(cache, cacheKey).data]
    /\ cache' = MapSet(MapDelete(cache, cacheKey),
                       [MapGet(cache, cacheKey) EXCEPT !.timestamp = now + 1])
    /\ UNCHANGED <<now, cadSeq, cadReq, disk>>

\* The cache check of generateCADFiles when it returns cached.data.
CadLookup(r, input, cacheKey) ==
    /\ MapHas(cache, cacheKey)
    /\ now - MapGet(cache, cacheKey).timestamp < CACHE_TTL
    /\ cadLast' = [kind |-> "hit", input |-> input, key |-> cacheKey,
                   response |-> MapGet(cache, cacheKey).data]
    /\ UNCHANGED <<now, cache, cadSeq, cadReq, disk>>

\* generateCADFiles after a cache miss, with the failure of a missing floor
\* cached as a result is.
CadGenerate_CachesFailure(r, input, cacheKey, t2) ==
    /\ ~(/\ MapHas(cache, cacheKey)
         /\ now - MapGet(cache, cacheKey).timestamp < CACHE_TTL)
    /\ IF FloorAt(input.planData, input.floorIndex) = Undefined
       THEN /\ CadCache(r, input, cacheKey,
                        FailedResult(input, "Floor index not found in plan data"))
            /\ UNCHANGED <<now, disk>>
       ELSE IF input.outputFormats.dwg
       THEN CadConvert(r, input,
                       generateDXF(input.planData, input.floorIndex, input.scale).value,
                       t2)
       ELSE /\ CadCache(r, input, cacheKey,
                        ExportResult(input,
                                     generateDXF(input.planData, input.floorIndex,
                                                 input.scale).value,
                                     Undefined, <<>>))
            /\ UNCHANGED <<now, disk>>

\* generateCADFiles after a cache miss, up to its first await or to its end
\* when there is none.
CadGenerate(r, input, cacheKey, t2) ==
    /\ ~(/\ MapHas(cache, cacheKey)
         /\ now - MapGet(cache, cacheKey).timestamp < CACHE_TTL)
    /\ IF FloorAt(input.planData, input.floorIndex) = Undefined
       THEN /\ cadLast' = [kind |-> "failed", input |-> input, key |-> cacheKey,
                           response |-> FailedResult(input, "Floor index not found in plan data")]
            /\ UNCHANGED <<now, cache, cadSeq, cadReq, disk>>
       ELSE IF input.outputFormats.dwg
       THEN CadConvert(r, input,
                       generateDXF(input.planData, input.floorIndex, input.scale).value,
                       t2)
       ELSE /\ CadCache(r, input, cacheKey,
                        ExportResult(input,
                                     generateDXF(input.planData, input.floorIndex,
                                                 input.scale).value,
                                     Undefined, <<>>))
            /\ UNCHANGED <<now, disk>>

\* generateCADFiles(planData, options), as the call of the first free slot
\* r (calls have no identity of their own), up to its first await or to its
\* end when there is none.  t2 is the second reading of Date.now() of a
\* local tool that begins.
CadStart(input, t2) ==
    /\ \E r \in 1..NumCadReq : cadReq[r].pc = "idle"
    /\ \E cacheKey \in {CacheKeyOf(input.planData, input.floorIndex, input.scale)} :
          \E r \in 1..NumCadReq :
              /\ cadReq[r].pc = "idle"
              /\ \A q \in 1..(r - 1) : cadReq[q].pc # "idle"
              /\ \/ CadLookup(r, input, cacheKey)
                 \/ CadGenerate(r, input, cacheKey, t2)
    /\ UNCHANGED <<plannerVars, validatorVars, conv, poll, tool>>

\* The rest of generateCADFiles once convertDXFtoDWG has come to end, the
\* call's record and the disk at its return.
CadConverted(r, input, cacheKey, end) ==
    /\ CadCache(r, input, cacheKey,
                ExportResult(input, end.conv.dxf, DwgFile(end.conv.result),
                             DwgWarnings(end.conv.result)))
    /\ disk' = end.disk
    /\ now' = end.now

\* The method that the conversion of call r awaited has settled, and a is
\* what convertDXFtoDWG came to: it awaits its next method, or it returns
\* and generateCADFiles runs to its end.
CadAwaited(r, a) ==
    IF a.conv.pc = "running"
    THEN /\ cadReq' = [cadReq EXCEPT ![r].conv = a.conv]
         /\ disk' = a.disk
         /\ now' = a.now
         /\ UNCHANGED <<cache, cadSeq, cadLast>>
    ELSE \E cacheKey \in {CacheKeyOf(cadReq[r].input.planData,
                                      cadReq[r].input.floorIndex,
                                      cadReq[r].input.scale)} :
            CadConverted(r, cadReq[r].input, cacheKey, a)

\* The remote conversion that call r awaits settles.
CadSettle(r, outcome, t2) ==
    /\ cadReq[r].pc = "converting"
    /\ tryOrder[cadReq[r].conv.idx] = "cloudconvert"
    /\ CadAwaited(r, CloudSettles(cadReq[r].conv, disk, outcome, now, t2))
    /\ UNCHANGED <<plannerVars, validatorVars, conv, poll, tool>>

\* The process of the local tool that call r awaits ends; the callback of
\* exec has not run yet.
CadToolExit(r, works) ==
    /\ cadReq[r].pc = "converting"
    /\ cadReq[r].conv.tool.pc = "exec"
    /\ cadReq' = [cadReq EXCEPT ![r].conv.tool =
                     ExitedTool(cadReq[r].conv.tool, disk, works)]
    /\ disk' = Exited(cadReq[r].conv.tool, disk, works)
    /\ UNCHANGED <<now, plannerVars, validatorVars, cache, cadSeq, cadLast, conv,
                   poll, tool>>

\* The callback of exec runs for the local tool that call r awaits.
CadResume(r, t2) ==
    /\ cadReq[r].pc = "converting"
    /\ cadReq[r].conv.tool.pc = "exited"
    /\ CadAwaited(r, ToolResumes(cadReq[r].conv, disk, now, t2))
    /\ UNCHANGED <<plannerVars, validatorVars, conv, poll, tool>>

\* clearCache(): cache.clear() empties the Map.  The count of insertions
\* cadSeq is history of the entries the Map holds, so it starts again.
CadClear ==
    /\ cache' = <<>>
    /\ cadSeq' = 0
    /\ cadLast' = [kind |-> "cleared"]
    /\ UNCHANGED <<now, plannerVars, validatorVars, cadReq, conv, jobVars>>

\* Time passes: one cache lifetime.
CadTick ==
    /\ now < MaxCadTicks * CACHE_TTL
    /\ now' = now + CACHE_TTL
    /\ UNCHANGED <<plannerVars, validatorVars, cadVars, conv, jobVars>>

Request(planData, floorIndex, scale, dxf, dwg) ==
    [planData |-> planData, floorIndex |-> floorIndex, scale |-> scale,
     outputFormats |-> [dxf |-> dxf, dwg |-> dwg]]

\* The ground floor areas a request may name: 1, and the first one not
\* exported so far.
FreshArea ==
    IF cache = <<>> THEN 1
    ELSE 1 + MaxOf([i \in 1..Len(cache) |-> cache[i].data.metadata.totalArea], 0)

\* Requests that fill the cache: the ground floor of a one-floor plan not
\* exported so far as DXF, and the one of area 1 as DXF and DWG.
CadInputs ==
    {Request(CadPlan(k, <<>>), 0, 1, TRUE, FALSE) :
        k \in {FreshArea} \cap 1..(MAX_CACHE_SIZE + CadExtraKeys)}
    \cup {Request(CadPlan(1, <<>>), 0, 1, TRUE, TRUE)}

\* Requests over plans that share a ground floor: with and without an upper
\* floor, for a floor that exists (0, and 1 with an upper floor) or does not,
\* as DXF; and over the one-floor plan of area 1 as DXF and DWG.
KeyInputs ==
    {Request(CadPlan(k, upper), floorIndex, 1, TRUE, FALSE) :
        k \in 1..MaxAreas, upper \in {<<>>, <<UpperFloor>>}, floorIndex \in 0..2}
    \cup {Request(CadPlan(1, <<>>), floorIndex, 1, TRUE, TRUE) : floorIndex \in 0..1}

-----------------------------------------------------------------------------
(* Specifications *)

Init ==
    /\ now = 0
    /\ responseCache = <<>>
    /\ req = [r \in 1..NumReq |-> IdleReq]
    /\ cacheLog = <<>>
    /\ vin = Undefined
    /\ vplan = Undefined
    /\ vres = Undefined
    /\ vpc = "idle"
    /\ cache = <<>>
    /\ cadReq = [r \in 1..NumCadReq |-> IdleCadReq]
    /\ cadSeq = 0
    /\ cadLast = [kind |-> "none"]
    /\ conv = [c \in 1..NumConv |-> IdleConv]
    /\ poll = IdlePoll
    /\ tool = [c \in 1..NumTools |-> IdleTool]
    /\ disk = {}

\* One generatePlan request against every behaviour of the provider.
Next ==
    \/ \E key \in 1..NumKeys : GenStart(1, key)
    \/ \E o \in Outcomes : ProviderReply(1, o)
    \/ DelayDone(1)

Spec == Init /\ [][Next]_vars

\* Interleaved generatePlan requests against a provider that answers with
\* valid plans, and a clock that lets cache entries expire.
NextCache ==
    \/ \E r \in 1..NumReq, key \in 1..NumKeys : GenStart(r, key)
    \/ \E r \in 1..NumReq, o \in {ContentGood1, ContentGood2} : ProviderReply(r, o)
    \/ Tick

SpecCache == Init /\ [][NextCache]_vars

\* The normalizer and the validator on every raw plan of RawInputs.
InitValidate ==
    /\ now = 0
    /\ responseCache = <<>>
    /\ req = [r \in 1..NumReq |-> IdleReq]
    /\ cacheLog = <<>>
    /\ vin \in RawInputs
    /\ vplan = Undefined
    /\ vres = Undefined
    /\ vpc = "raw"
    /\ cache = <<>>
    /\ cadReq = [r \in 1..NumCadReq |-> IdleCadReq]
    /\ cadSeq = 0
    /\ cadLast = [kind |-> "none"]
    /\ conv = [c \in 1..NumConv |-> IdleConv]
    /\ poll = IdlePoll
    /\ tool = [c \in 1..NumTools |-> IdleTool]
    /\ disk = {}

NextValidate == VParse \/ VValidate

SpecValidate == InitValidate /\ [][NextValidate]_vars

\* roomsOverlap on every pair of HalfFootRooms.
InitOverlap ==
    /\ now = 0
    /\ responseCache = <<>>
    /\ req = [r \in 1..NumReq |-> IdleReq]
    /\ cacheLog = <<>>
    /\ vin \in HalfFootRooms \X HalfFootRooms
    /\ vplan = Undefined
    /\ vres = Undefined
    /\ vpc = "rooms"
    /\ cache = <<>>
    /\ cadReq = [r \in 1..NumCadReq |-> IdleCadReq]
    /\ cadSeq = 0
    /\ cadLast = [kind |-> "none"]
    /\ conv = [c \in 1..NumConv |-> IdleConv]
    /\ poll = IdlePoll
    /\ tool = [c \in 1..NumTools |-> IdleTool]
    /\ disk = {}

NextOverlap == VOverlap

SpecOverlap == InitOverlap /\ [][NextOverlap]_vars

\* Interleaved convertDXFtoDWG calls, in auto mode and with a method named.
NextConv ==
    \/ \E c \in 1..NumConv, d \in {"DXF1", "DXF2"}, k \in BOOLEAN,
          method \in {"auto", "cloudconvert", "libredwg", "oda"},
          t2 \in SecondReadings :
          ConvStart(c, d, k, method, t2)
    \/ \E c \in 1..NumConv, outcome \in {"ok", "fail"}, t2 \in SecondReadings :
          ConvSettle(c, outcome, t2)
    \/ \E c \in 1..NumConv, works \in BOOLEAN : ConvToolExit(c, works)
    \/ \E c \in 1..NumConv, t2 \in SecondReadings : ConvResume(c, t2)
    \/ \E c \in 1..NumConv : ConvReturn(c)
    \/ ToolTick

SpecConv == Init /\ [][NextConv]_vars

\* Time passes between two batches of exports.
CadBatchTick ==
    /\ Len(cache) % CadBatch = 0
    /\ CadTick

\* A call of generateCADFiles awaits its conversion.
Pending == \E r \in 1..NumCadReq : cadReq[r].pc = "converting"

\* Interleaved export requests and a clock that lets cache entries expire;
\* one conversion is awaited at a time.
NextCad ==
    \/ \E input \in CadInputs, t2 \in SecondReadings :
          /\ input.outputFormats.dwg => ~Pending
          /\ CadStart(input, t2)
    \/ \E r \in 1..NumCadReq, outcome \in {"ok", "fail"}, t2 \in SecondReadings :
          CadSettle(r, outcome, t2)
    \/ \E r \in 1..NumCadReq, works \in BOOLEAN : CadToolExit(r, works)
    \/ \E r \in 1..NumCadReq, t2 \in SecondReadings : CadResume(r, t2)
    \/ CadBatchTick
    \/ CadClear

SpecCad == Init /\ [][NextCad]_vars

\* DWG exports of two one-floor plans whose conversions run side by side,
\* under a clock that moves by milliseconds.
NextExport ==
    \/ \E k \in 1..2, t2 \in SecondReadings :
          CadStart(Request(CadPlan(k, <<>>), 0, 1, TRUE, TRUE), t2)
    \/ \E r \in 1..NumCadReq, outcome \in {"ok", "fail"}, t2 \in SecondReadings :
          CadSettle(r, outcome, t2)
    \/ \E r \in 1..NumCadReq, works \in BOOLEAN : CadToolExit(r, works)
    \/ \E r \in 1..NumCadReq, t2 \in SecondReadings : CadResume(r, t2)
    \/ ToolTick
    \/ CadClear

SpecExport == Init /\ [][NextExport]_vars

\* Interleaved export requests over plans that share floors; one conversion
\* is awaited at a time.
NextKey ==
    \/ \E input \in KeyInputs, t2 \in SecondReadings :
          /\ input.outputFormats.dwg => ~Pending
          /\ CadStart(input, t2)
    \/ \E r \in 1..NumCadReq, outcome \in {"ok", "fail"}, t2 \in SecondReadings :
          CadSettle(r, outcome, t2)
    \/ \E r \in 1..NumCadReq, works \in BOOLEAN : CadToolExit(r, works)
    \/ \E r \in 1..NumCadReq, t2 \in SecondReadings : CadResume(r, t2)
    \/ CadTick
    \/ CadClear

SpecKey == Init /\ [][NextKey]_vars

\* generatePlan requests and exports of one drawing, under a clock that
\* takes the entries of both caches to their lifetime and beyond.
NextExpiry ==
    \/ \E r \in 1..NumReq, key \in 1..NumKeys : GenStart(r, key)
    \/ \E r \in 1..NumReq : ProviderReply(r, ContentGood1)
    \/ CadStart(Request(CadPlan(1, <<>>), 0, 1, TRUE, FALSE), now)
    \/ Tick
    \/ CadTick
    \/ CadClear

SpecExpiry == Init /\ [][NextExpiry]_vars

\* Exports of the ground floor of one-floor plans that differ in building
\* type and area.
NextHash ==
    \/ \E buildingType \in {"Aa", "BB"}, k \in 1..2 :
          CadStart(Request([CadPlan(k, <<>>) EXCEPT !.buildingType = buildingType],
                           0, 1, TRUE, FALSE), now)
    \/ CadTick
    \/ CadClear

SpecHash == Init /\ [][NextHash]_vars

\* Interleaved local-tool conversions of two drawings.
NextTool ==
    \/ \E c \in 1..NumTools, method \in {"libredwg", "oda"},
          dxfContent \in {"DXF1", "DXF2"}, t2 \in SecondReadings :
          ToolStart(c, method, dxfContent, t2)
    \/ \E c \in 1..NumTools, works \in BOOLEAN : ToolExit(c, works)
    \/ \E c \in 1..NumTools : ToolResume(c)
    \/ ToolTick

SpecTool == Init /\ [][NextTool]_vars

\* One pollJobStatus call against every behaviour of the remote service.
NextPoll ==
    \/ PollStart
    \/ PollWake
    \/ \E status \in {"finished", "error", "processing", "waiting", "rejected"} :
          PollReply(status)

SpecPoll == Init /\ [][NextPoll]_vars

\* Every await of the call settles.
SpecPollFair == SpecPoll /\ WF_vars(NextPoll)

\* The caller has the result or the error of generatePlan; the slot is free
\* for another call.
GenReturn(r) ==
    /\ req[r].pc \in {"returned", "failed"}
    /\ req' = [req EXCEPT ![r] = IdleReq]
    /\ UNCHANGED <<now, responseCache, cacheLog, validatorVars, cadVars, conv, jobVars>>

\* Time passes between two batches of requests.
SweepTick ==
    /\ now < MaxSweepTicks * TickStep
    /\ Len(responseCache) % TickEvery = 0
    /\ now' = now + TickStep
    /\ UNCHANGED <<plannerVars, validatorVars, cadVars, conv, jobVars>>

\* The keys the clients of the sweep specification ask for: the first key
\* beyond those stored or, between two batches, key 1 again.
SweepKeys ==
    {k \in 1..MaxSweepKeys :
        /\ \A j \in MapKeys(responseCache) : j < k
        /\ k = 1 \/ (k - 1) \in MapKeys(responseCache)}
    \cup {k \in {1} : Len(responseCache) % TickEvery = 0}

\* A request may begin before the callers of the others have their results
\* only once the Map has reached its threshold.
SweepOverlap ==
    \/ \A s \in 1..NumReq : req[s].pc = "idle"
    \/ Len(responseCache) >= SweepThreshold

\* generatePlan requests, one after another and at the threshold interleaved,
\* against a provider that answers with a valid plan, until the generation
\* cache has been taken over its sweep threshold.
NextSweep ==
    \/ \E r \in 1..NumSweepReq, key \in SweepKeys :
          SweepOverlap /\ GenStart(r, key)
    \/ \E r \in 1..NumSweepReq : ProviderReply(r, ContentGood1)
    \/ \E r \in 1..NumSweepReq : GenReturn(r)
    \/ SweepTick

SpecSweep == Init /\ [][NextSweep]_vars

-----------------------------------------------------------------------------
(* Properties of generatePlan, under Spec *)

Last(s) == s[Len(s)]

Done(q) == q.pc \in {"returned", "failed"}

IsQuota(o) == o.kind = "error" /\ o.code = "insufficient_quota"
IsContext(o) == o.kind = "error" /\ o.code = "context_length_exceeded"
IsRateLimit(o) == o.kind = "error" /\ o.code = "rate_limit_exceeded"

\* The provider's answer is a body with a structural failure: it cannot be
\* decoded, or it has no floors, or a floor without rooms.
IsStructural(o) == o.kind \in {"json", "text"} /\ StructuralError(o) # ""

\* The provider's answer decodes to a plan.
IsDecodable(o) == o.kind \in {"json", "text"} /\ StructuralError(o) = ""

\* What validatePlanGeometry makes of the plan the answer decodes to.
ValidationOf(o, key) ==
    validatePlanGeometry(parseAndValidateResponse(o, MetaOf(key)).plan)

\* The answer decodes to a plan that does not pass geometry validation.
FailsGeometry(o, key) ==
    /\ IsDecodable(o)
    /\ \/ ValidationOf(o, key).threw
       \/ ~ValidationOf(o, key).valid

GenericFailure ==
    "Failed to generate architectural plan after multiple attempts. Please try again."

\* C1: the provider is invoked at most three times for one generatePlan
\* request, whatever the outcomes of the attempts, and it is not invoked
\* again once the request has returned or failed.
C1_AtMostThreeCalls ==
    /\ [](\A r \in 1..NumReq : req[r].calls <= 3)
    /\ [][\A r \in 1..NumReq :
            Done(req[r]) => /\ req'[r].calls = req[r].calls
                            /\ req'[r].pc = req[r].pc]_vars

\* A request that failed after three provider calls.
C1_Witness == req[1].pc = "failed" /\ req[1].calls = 3

\* C2 (as stated): when all three attempts return a decodable plan that
\* fails geometry validation, generatePlan does not throw: it returns
\* {plan, usage} whose plan.validationWarnings is the non-empty error list
\* of the third attempt's validation.
C2_ThirdInvalidPlanReturned ==
    \A r \in 1..NumReq :
        (/\ Len(req[r].outcomes) = 3
         /\ \A i \in 1..3 : FailsGeometry(req[r].outcomes[i], req[r].key))
        => /\ req[r].pc = "returned"
           /\ ~ValidationOf(req[r].outcomes[3], req[r].key).threw
           /\ req[r].result.plan.validationWarnings =
                  Arr(ValidationOf(req[r].outcomes[3], req[r].key).errors)
           /\ ValidationOf(req[r].outcomes[3], req[r].key).errors # <<>>
           /\ req[r].result.usage = req[r].outcomes[3].usage

\* C8: a quota-exhaustion or context-too-long error on any attempt ends the
\* request at once: it fails with 503, respectively 400, with no further
\* provider call, no backoff delay after the error and no cache write.
C8_QuotaAndContextFailAtOnce ==
    \A r \in 1..NumReq :
        (/\ req[r].outcomes # <<>>
         /\ IsQuota(Last(req[r].outcomes)) \/ IsContext(Last(req[r].outcomes)))
        => /\ req[r].pc = "failed"
           /\ req[r].error.isAppError
           /\ req[r].error.statusCode =
                  IF IsQuota(Last(req[r].outcomes)) THEN 503 ELSE 400
           /\ req[r].calls = Len(req[r].outcomes)
           /\ Len(req[r].delays) = Len(req[r].outcomes) - 1
           /\ cacheLog = <<>>
           /\ responseCache = <<>>

\* A quota error on the second attempt.
C8_Witness ==
    /\ Len(req[1].outcomes) = 2
    /\ IsQuota(req[1].outcomes[2])
    /\ req[1].pc = "failed"

\* C9 (as stated): a structural failure of the provider's answer is not
\* retried: the request fails with it at once.
C9_StructuralNotRetried ==
    \A r \in 1..NumReq :
        (req[r].outcomes # <<>> /\ IsStructural(Last(req[r].outcomes)))
        => /\ req[r].pc = "failed"
           /\ req[r].calls = Len(req[r].outcomes)

\* C9 (amended): a structural failure is retried like any other retryable
\* failure: on the first and second attempt it is followed by the backoff
\* delay and another provider call, on the third the request fails with the
\* generic 500 failure.
C9_StructuralRetried ==
    \A r \in 1..NumReq :
        (req[r].outcomes # <<>> /\ IsStructural(Last(req[r].outcomes)))
        => IF Len(req[r].outcomes) < 3
           THEN /\ req[r].pc \in {"delaying", "calling"}
                /\ Len(req[r].delays) = Len(req[r].outcomes)
                /\ Last(req[r].delays) = retryDelay * Len(req[r].outcomes)
                /\ req[r].calls =
                       Len(req[r].outcomes) + IF req[r].pc = "calling" THEN 1 ELSE 0
           ELSE /\ req[r].pc = "failed"
                /\ req[r].calls = 3
                /\ req[r].error.statusCode = 500
                /\ req[r].error.message = GenericFailure

\* An undecodable body on the first attempt, and the second call made.
C9_Witness ==
    /\ Len(req[1].outcomes) = 1
    /\ req[1].outcomes[1] = ContentText
    /\ req[1].pc = "calling"
    /\ req[1].calls = 2

\* C10: when the attempts are exhausted, the failure is 429 if the error of
\* the final attempt was a rate-limit error and the generic 500 otherwise;
\* a rate-limit error on an earlier attempt is retried.
C10_ExhaustionCode ==
    \A r \in 1..NumReq :
        /\ (/\ req[r].pc = "failed"
            /\ ~IsQuota(Last(req[r].outcomes))
            /\ ~IsContext(Last(req[r].outcomes)))
           => /\ Len(req[r].outcomes) = 3
              /\ req[r].error.isAppError
              /\ req[r].error.statusCode =
                     IF IsRateLimit(req[r].outcomes[3]) THEN 429 ELSE 500
        /\ (/\ req[r].outcomes # <<>>
            /\ Len(req[r].outcomes) < 3
            /\ IsRateLimit(Last(req[r].outcomes)))
           => req[r].pc \in {"delaying", "calling"}

\* Rate-limit errors on the first two attempts and another error on the
\* third.
C10_Witness ==
    /\ req[1].pc = "failed"
    /\ Len(req[1].outcomes) = 3
    /\ IsRateLimit(req[1].outcomes[1])
    /\ IsRateLimit(req[1].outcomes[2])
    /\ req[1].outcomes[3] = ProviderError("server_error")
    /\ req[1].error.statusCode = 500

-----------------------------------------------------------------------------
(* Properties of the generation cache, under SpecCache *)

\* The results cached under key by the first n writes, in order.
WritesTo(key, n) ==
    SelectSeq(SubSeq(cacheLog, 1, n), LAMBDA w : w.key = key)

\* Request r starts in this step.
Starts(r) == req[r].pc = "idle" /\ req'[r].pc # "idle"

\* Some result for the key of the request that starts was cached less than
\* five minutes ago.
CachedRecently(r, i) ==
    /\ cacheLog[i].key = req'[r].key
    /\ now - cacheLog[i].at < 5 * 60 * 1000

\* C3 (as stated): a request that starts less than five minutes after the
\* result of an earlier request with the same (prompt, meta) was cached
\* returns that {plan, usage} and makes no provider call.
C3_SecondRequestGetsFirstResult ==
    [][\A r \in 1..NumReq : \A i \in 1..Len(cacheLog) :
          (Starts(r) /\ CachedRecently(r, i))
          => /\ req'[r].pc = "returned"
             /\ req'[r].calls = 0
             /\ req'[r].result = cacheLog[i].data]_vars

\* C3 (amended): such a request makes no provider call and returns the
\* {plan, usage} most recently cached under its key: the earlier request's
\* result unless another request with the same (prompt, meta) cached its own
\* result after it.
C3_SecondRequestGetsLatestResult ==
    /\ [][\A r \in 1..NumReq : \A i \in 1..Len(cacheLog) :
            (Starts(r) /\ CachedRecently(r, i))
            => /\ req'[r].pc = "returned"
               /\ req'[r].fromCache
               /\ req'[r].calls = 0
               /\ req'[r].result =
                      Last(WritesTo(req'[r].key, Len(cacheLog))).data]_vars
    /\ [](\A r \in 1..NumReq : req[r].fromCache => req[r].calls = 0)

\* Two requests cached different results one after the other, and a third
\* was served the later one within the first one's five minutes.
C3_Witness ==
    \E r \in 1..NumReq :
        /\ req[r].fromCache
        /\ req[r].logAtStart = 2
        /\ cacheLog[1].key = req[r].key
        /\ cacheLog[2].key = req[r].key
        /\ cacheLog[1].data # cacheLog[2].data
        /\ req[r].result = cacheLog[2].data
        /\ now - cacheLog[1].at < 5 * 60 * 1000

-----------------------------------------------------------------------------
(* Properties of the geometry validator, under SpecValidate *)

\* C5 (as stated): validatePlanGeometry never throws: for every plan the
\* normalizer puts out it returns a {valid, errors} report.
C5_ValidateNeverThrows ==
    vpc = "validated"
    => /\ ~vres.threw
       /\ vres.valid \in BOOLEAN
       /\ vres.valid <=> (vres.errors = <<>>)

-----------------------------------------------------------------------------
(* Properties of the DWG converter, under SpecConv *)

\* C4 (as stated): without a remote service key and with every local tool
\* failing, convertDXFtoDWG in auto mode returns the tagged fallback: the
\* drawing text with format "dxf" and a message, not a bare buffer.
C4_TaggedFallback ==
    \A c \in 1..NumConv :
        (/\ conv[c].pc = "done"
         /\ conv[c].method = "auto"
         /\ ~conv[c].apiKey
         /\ \A i \in 1..Len(conv[c].tried) : conv[c].tried[i].outcome = "fail")
        => /\ ~conv[c].result.isBuffer
           /\ conv[c].result.format = "dxf"
           /\ conv[c].result.buffer = BufferFrom(conv[c].dxf)
           /\ conv[c].result.message # ""

-----------------------------------------------------------------------------
(* Properties of the export cache, under SpecCad *)

\* C6: the export cache never holds more than 50 entries.
C6_AtMostFiftyEntries == Len(cache) <= 50

\* The cache is full and a 51st key was added, while a conversion is pending.
C6_Witness ==
    /\ Len(cache) = 50
    /\ cadSeq = 51
    /\ \E r \in 1..NumCadReq : cadReq[r].pc = "converting"

\* This step caches a result under a key the cache does not hold.
CachesNewKey ==
    /\ cache' # cache
    /\ cadLast'.kind = "cached"
    /\ ~MapHas(cache, cadLast'.key)

\* The entries of m that were added to the Map before every other entry.
EarliestInserted(m) ==
    {e \in {m[i] : i \in 1..Len(m)} : \A i \in 1..Len(m) : e.seq <= m[i].seq}

Entries(m) == {m[i] : i \in 1..Len(m)}

\* C7: when the cache holds 50 entries and a result is cached under a key it
\* does not hold, exactly one entry is removed, the one whose key was added
\* earliest; the other 49 entries stay as they were and the new key is
\* stored with the result, so the 50 keys added last are the ones held.
C7_EvictsEarliestInserted ==
    [][(Len(cache) = 50 /\ CachesNewKey)
       => /\ Len(cache') = 50
          /\ Cardinality(Entries(cache) \ Entries(cache')) = 1
          /\ Entries(cache) \ Entries(cache') = EarliestInserted(cache)
          /\ MapKeys(cache') =
                 (MapKeys(cache) \ {e.key : e \in EarliestInserted(cache)})
                 \cup {cadLast'.key}
          /\ MapGet(cache', cadLast'.key).data = cadLast'.response
          /\ MapGet(cache', cadLast'.key).timestamp = now
          /\ \A e \in Entries(cache') : \A f \in EarliestInserted(cache) :
                 e.seq > f.seq]_vars

\* After a cache lifetime the floor of area 51 was cached under a 51st key in
\* the full cache: the entry added first (area 1) is gone and the entry added
\* second (area 2) is now the first.
C7_Witness ==
    /\ Len(cache) = 50
    /\ cadSeq = 51
    /\ cadLast.kind = "cached"
    /\ now = CACHE_TTL
    /\ cadLast.response.metadata.totalArea = 51
    /\ cache[50].key = cadLast.key
    /\ cache[50].data.metadata.totalArea = 51
    /\ cache[1].data.metadata.totalArea = 2
    /\ \A i \in 1..Len(cache) : cache[i].data.metadata.totalArea # 1

-----------------------------------------------------------------------------
(* Properties of roomsOverlap, under SpecOverlap (numbers in half feet) *)

RoomLeft(room) == room.position.x
RoomRight(room) == room.position.x + room.dimensions.width
RoomTop(room) == room.position.y
RoomBottom(room) == room.position.y + room.dimensions.length

\* One of the four separation conditions holds, the tolerance of 0.5 ft
\* being one half foot.
Separated(a, b) ==
    \/ RoomRight(a) <= RoomLeft(b) + 1
    \/ RoomLeft(a) >= RoomRight(b) - 1
    \/ RoomBottom(a) <= RoomTop(b) + 1
    \/ RoomTop(a) >= RoomBottom(b) - 1

\* The rooms share an exact wall edge.
SharesEdge(a, b) ==
    \/ RoomRight(a) = RoomLeft(b) \/ RoomLeft(a) = RoomRight(b)
    \/ RoomBottom(a) = RoomTop(b) \/ RoomTop(a) = RoomBottom(b)

\* C12: roomsOverlap returns false exactly when one of the four separation
\* conditions holds with the 0.5 ft tolerance, and true when none does; two
\* rooms that share an exact wall edge are not reported as overlapping.
C12_OverlapIffNotSeparated ==
    vpc = "compared"
    => /\ vres \in BOOLEAN
       /\ vres = FALSE <=> Separated(vin[1], vin[2])
       /\ SharesEdge(vin[1], vin[2]) => vres = FALSE

\* Two rooms half a foot into each other are compared and found apart.
C12_Witness ==
    /\ vpc = "compared"
    /\ vres = FALSE
    /\ RoomRight(vin[1]) = RoomLeft(vin[2]) + 1
    /\ RoomTop(vin[1]) = RoomTop(vin[2])
    /\ RoomBottom(vin[1]) = RoomBottom(vin[2])

-----------------------------------------------------------------------------
(* Properties of the validator's report, under SpecValidate *)

\* The rooms of the plan, as <<floor number, room number>>, that have a
\* position and dimensions and the given name.
PlacedRooms(plan, name) ==
    {fi \in UNION {{<<f, i>> : i \in 1..Len(plan.floors.items[f].rooms.items)} :
                      f \in 1..Len(plan.floors.items)} :
        /\ plan.floors.items[fi[1]].rooms.items[fi[2]].name = name
        /\ plan.floors.items[fi[1]].rooms.items[fi[2]].position # Undefined
        /\ plan.floors.items[fi[1]].rooms.items[fi[2]].dimensions # Undefined}

RoomAt(plan, fi) == plan.floors.items[fi[1]].rooms.items[fi[2]]

\* The number of errors of a kind that name the room.
ErrorCount(errors, kind, name) ==
    Cardinality({k \in 1..Len(errors) :
                    errors[k].kind = kind /\ errors[k].room = name})

TooWide(plan, name) ==
    {fi \in PlacedRooms(plan, name) :
        RoomAt(plan, fi).position.x + RoomAt(plan, fi).dimensions.width
            > plan.buildingDimensions.width + 1}

TooDeep(plan, name) ==
    {fi \in PlacedRooms(plan, name) :
        RoomAt(plan, fi).position.y + RoomAt(plan, fi).dimensions.length
            > plan.buildingDimensions.depth + 1}

Negative(plan, name) ==
    {fi \in PlacedRooms(plan, name) :
        RoomAt(plan, fi).position.x < 0 \/ RoomAt(plan, fi).position.y < 0}

RoomNames == {"Living Room", "Bath", "Master Bedroom"}

\* C13: in a report of validatePlanGeometry, a room that has position and
\* dimensions has a width error exactly when x + width exceeds the building
\* width by more than 1 ft, a depth error exactly when y + length exceeds the
\* building depth by more than 1 ft, and a negative-position error exactly
\* when x < 0 or y < 0.
C13_BoundsErrorsExact ==
    (vpc = "validated" /\ ~vres.threw)
    => \A name \in RoomNames :
          /\ ErrorCount(vres.errors, "width", name)
                 = Cardinality(TooWide(vplan.plan, name))
          /\ ErrorCount(vres.errors, "depth", name)
                 = Cardinality(TooDeep(vplan.plan, name))
          /\ ErrorCount(vres.errors, "negative", name)
                 = Cardinality(Negative(vplan.plan, name))

\* A report on a floor with one room exactly 1 ft over the building's width,
\* which has no width error, and one room 2 ft over, which has one.
C13_Witness ==
    /\ vpc = "validated"
    /\ ~vres.threw
    /\ Len(vplan.plan.floors.items[1].rooms.items) = 2
    /\ vplan.plan.floors.items[1].rooms.items[1].name = "Living Room"
    /\ vplan.plan.floors.items[1].rooms.items[1].position = Pos(25, 17)
    /\ vplan.plan.floors.items[1].rooms.items[2].name = "Bath"
    /\ vplan.plan.floors.items[1].rooms.items[2].position = Pos(26, 17)
    /\ ErrorCount(vres.errors, "width", "Living Room") = 0
    /\ ErrorCount(vres.errors, "width", "Bath") = 1

-----------------------------------------------------------------------------
(* More properties of generatePlan, under Spec *)

\* Request r returns in this step a result it computed from a provider call.
ReturnsComputed(r) ==
    req[r].pc = "calling" /\ req'[r].pc = "returned"

\* Request r fails in this step.
Fails(r) == req[r].pc # "failed" /\ req'[r].pc = "failed"

\* C18: when generatePlan returns a result computed from a provider call,
\* that {plan, usage} is stored in the generation cache under the request's
\* key, with the time of the return, also when the plan was accepted on the
\* final attempt with validationWarnings; a request that fails leaves the
\* cache as it was.
C18_ReturnedResultIsCached ==
    [][\A r \in 1..NumReq :
          /\ ReturnsComputed(r)
             => /\ MapHas(responseCache', req'[r].key)
                /\ MapGet(responseCache', req'[r].key).data = req'[r].result
                /\ MapGet(responseCache', req'[r].key).timestamp = now
                /\ getFromCache(responseCache', req'[r].key, now) = req'[r].result
          /\ Fails(r) => responseCache' = responseCache]_vars

\* A plan accepted on the third attempt with validationWarnings is the
\* cache's entry.
C18_Witness ==
    /\ req[1].pc = "returned"
    /\ req[1].calls = 3
    /\ req[1].outcomes[3] = ContentOverlap
    /\ req[1].result.plan.validationWarnings # Undefined
    /\ MapGet(responseCache, req[1].key).data = req[1].result

\* C20: every failure of generatePlan reaches the caller as an AppError
\* whose status is 400, 429, 500 or 503: no provider error and no TypeError
\* leaves the retry loop.
C20_FailuresAreAppErrors ==
    \A r \in 1..NumReq :
        req[r].pc = "failed"
        => /\ req[r].error.isAppError
           /\ req[r].error.statusCode \in {400, 429, 500, 503}
           /\ req[r].error # TypeError
           /\ \A o \in ProviderErrors : req[r].error # ApiError(o.code)

\* The validator threw a TypeError on the third attempt and the request
\* failed with the generic AppError.
C20_Witness ==
    /\ req[1].pc = "failed"
    /\ Len(req[1].outcomes) = 3
    /\ req[1].outcomes[3] = ContentBare
    /\ req[1].lastError = TypeError
    /\ req[1].error.isAppError
    /\ req[1].error.statusCode = 500

-----------------------------------------------------------------------------
(* More properties of the DWG converter, under SpecConv *)

\* The methods a conversion attempted, in order.
Tried(k) == [i \in 1..Len(k.tried) |-> k.tried[i].m]

\* The methods of tryOrder the loop does not skip.
Configured(k) ==
    SelectSeq(tryOrder, LAMBDA m : m # "cloudconvert" \/ k.apiKey)

\* C19 (as stated): in auto mode the methods are attempted in the order
\* cloudconvert, libredwg, oda, each only after every earlier one was
\* skipped or failed, and a failure does not end the chain: when libredwg
\* fails to convert, oda is attempted next.
C19_ChainOrder ==
    \A c \in 1..NumConv :
        /\ (conv[c].pc # "idle" /\ conv[c].method = "auto")
           => /\ Len(Tried(conv[c])) <= Len(Configured(conv[c]))
              /\ Tried(conv[c]) = SubSeq(Configured(conv[c]), 1, Len(Tried(conv[c])))
              /\ \A i \in 1..(Len(conv[c].tried) - 1) :
                     conv[c].tried[i].outcome = "fail"
        /\ (/\ conv[c].pc # "idle"
            /\ conv[c].method = "auto"
            /\ \E i \in 1..Len(conv[c].tried) :
                   /\ conv[c].tried[i].m = "libredwg"
                   /\ conv[c].tried[i].outcome = "fail")
           => \/ conv[c].pc = "running" /\ tryOrder[conv[c].idx] = "oda"
              \/ \E i \in 1..Len(conv[c].tried) : conv[c].tried[i].m = "oda"

-----------------------------------------------------------------------------
(* Properties of generateCADFiles, under SpecCad *)

\* The last generateCADFiles call ran to its end with a dwg file entry whose
\* bytes are the DXF text: the request named dwg and no method converted.
DwgNotConverted ==
    /\ cadLast.kind = "cached"
    /\ cadLast.response.files.dwg # Undefined
    /\ cadLast.response.files.dwg.content.content = "dxf"

\* C11 (as stated): when dwg is requested and no method produced DWG bytes,
\* the export succeeds, carries the DXF text in place of the DWG, and its
\* warnings list has an entry for the failed conversion.
C11_FallbackIsWarned ==
    DwgNotConverted
    => /\ cadLast.response.success
       /\ cadLast.response.files.dwg.content.text
              = cadLast.response.files.dxf.content
       /\ cadLast.response.warnings # <<>>

-----------------------------------------------------------------------------
(* Properties of the export cache key and the cache check, under SpecKey *)

\* Slot r goes from idle to awaiting convertDXFtoDWG in this step.
StartsConverting(r) == cadReq[r].pc = "idle" /\ cadReq'[r].pc = "converting"

\* This step is a generateCADFiles call up to its first await or its end:
\* a slot begins to await its conversion, or a call returns that leaves
\* every slot as it was.
CallStep ==
    \/ \E r \in 1..NumCadReq : StartsConverting(r)
    \/ /\ cadReq' = cadReq
       /\ cadLast' # cadLast \/ cache' # cache
       /\ cadLast'.kind # "cleared"

\* The request of the call made in this step.
CallInput ==
    IF \E r \in 1..NumCadReq : StartsConverting(r)
    THEN cadReq'[CHOOSE r \in 1..NumCadReq : StartsConverting(r)].input
    ELSE cadLast'.input

\* The cache holds an entry under key that is younger than CACHE_TTL.
FreshEntry(key) ==
    /\ MapHas(cache, key)
    /\ now - MapGet(cache, key).timestamp < CACHE_TTL

\* The key of the call made in this step.
CallKey ==
    IF \E r \in 1..NumCadReq : StartsConverting(r)
    THEN generateCacheKey(CallInput.planData, CallInput.floorIndex, CallInput.scale)
    ELSE cadLast'.key

\* This step is a call whose key has a fresh entry.
CallOnFreshEntry == CallStep /\ FreshEntry(CallKey)

\* C15: a call whose key has an entry younger than 5 minutes returns the
\* entry's data as stored, starts no conversion, writes no new drawing into
\* the cache, and leaves the cache's entries, order and timestamps as they
\* were.
C15_HitLeavesCacheUnchanged ==
    [][CallOnFreshEntry
       => /\ cadLast'.kind = "hit"
          /\ cadLast'.response = MapGet(cache, cadLast'.key).data
          /\ cache' = cache
          /\ cadSeq' = cadSeq
          /\ cadReq' = cadReq]_vars

\* A request for DXF and DWG was answered from a cache of two entries, after
\* a cache lifetime, with a stored result that has a dwg file.
C15_Witness ==
    /\ cadLast.kind = "hit"
    /\ cadLast.input.outputFormats.dwg
    /\ now = CACHE_TTL
    /\ Len(cache) = 2
    /\ MapHas(cache, cadLast.key)
    /\ cadLast.response = MapGet(cache, cadLast.key).data
    /\ cadLast.response.files.dwg # Undefined

\* What the key is made from.
KeyParts(input) ==
    [buildingType |-> input.planData.buildingType,
     buildingDimensions |-> input.planData.buildingDimensions,
     floor |-> FloorAt(input.planData, input.floorIndex),
     floorIndex |-> input.floorIndex,
     scale |-> input.scale]

\* Requests that agree on what the key is made from get the same key.
SameKeyForSameParts ==
    \A a, b \in KeyInputs :
        KeyParts(a) = KeyParts(b)
        => generateCacheKey(a.planData, a.floorIndex, a.scale)
             = generateCacheKey(b.planData, b.floorIndex, b.scale)

\* Entry e was cached for a floor with the content and index that input
\* names (the plans of KeyInputs have one buildingDimensions).
CachedForSameFloor(e, input) ==
    /\ e.data.metadata = Metadata(input.planData, input.floorIndex, input.scale)
    /\ e.key.floorIndex = input.floorIndex
    /\ FloorAt(input.planData, input.floorIndex) # Undefined

\* C16: the key depends on buildingType, buildingDimensions, the floor at
\* floorIndex, floorIndex and scale only; a call for a floor that an entry
\* younger than 5 minutes was cached for, by a request over this plan or over
\* one that differs in other floors and other fields, returns that entry's
\* data.
C16_KeyIgnoresOtherFloors ==
    [][/\ SameKeyForSameParts
       /\ CallStep
          => \A i \in 1..Len(cache) :
                 (/\ now - cache[i].timestamp < CACHE_TTL
                  /\ CachedForSameFloor(cache[i], CallInput))
                 => /\ cadLast'.kind = "hit"
                    /\ cadLast'.key = cache[i].key
                    /\ cadLast'.response = cache[i].data
                    /\ cache' = cache]_vars

\* A request for the ground floor of the two-floor plan was answered with
\* the result of a DXF and DWG export, which only the one-floor plan is
\* asked for.
C16_Witness ==
    /\ cadLast.kind = "hit"
    /\ Len(cadLast.input.planData.floors.items) = 2
    /\ cadLast.input.floorIndex = 0
    /\ cadLast.response.files.dwg # Undefined
    /\ cadLast.response = MapGet(cache, cadLast.key).data

\* C17: generateDXF throws the floor-not-found error and returns no text
\* when floorIndex names no floor of the plan, and a generateCADFiles call
\* for such a floorIndex returns a failure, starts no conversion and caches
\* nothing.
C17_MissingFloorFails ==
    [][(CallStep /\ CallInput.floorIndex >= Len(CallInput.planData.floors.items))
       => /\ generateDXF(CallInput.planData, CallInput.floorIndex, CallInput.scale)
                = Thrown("Floor index not found")
          /\ cadLast'.kind = "failed"
          /\ ~cadLast'.response.success
          /\ cadLast'.response.error = "Floor index not found in plan data"
          /\ cadReq' = cadReq
          /\ cache' = cache]_vars

\* A request for DXF and DWG of floor 1 of the one-floor plan failed while
\* the cache held an entry.
C17_Witness ==
    /\ cadLast.kind = "failed"
    /\ cadLast.input.floorIndex = 1
    /\ Len(cadLast.input.planData.floors.items) = 1
    /\ cadLast.input.outputFormats.dwg
    /\ ~cadLast.response.success
    /\ Len(cache) >= 1
    /\ \A r \in 1..NumCadReq : cadReq[r].pc = "idle"

-----------------------------------------------------------------------------
(* Properties of the retry loop of generatePlan, under Spec *)

\* The answer decodes to a plan that validatePlanGeometry reports invalid.
ReportedInvalid(o, key) ==
    /\ IsDecodable(o)
    /\ ~ValidationOf(o, key).threw
    /\ ~ValidationOf(o, key).valid

\* The last answer of request r was the one of attempt 1 or 2 and failed
\* geometry validation: the plan is dropped, nothing is cached, and after
\* the backoff delay the provider is called again.
InvalidPlanRetried(r) ==
    (/\ req[r].outcomes # <<>>
     /\ Len(req[r].outcomes) < 3
     /\ FailsGeometry(Last(req[r].outcomes), req[r].key))
    => /\ req[r].pc \in {"delaying", "calling"}
       /\ req[r].result = Undefined
       /\ responseCache = <<>>
       /\ cacheLog = <<>>
       /\ Len(req[r].delays) = Len(req[r].outcomes)
       /\ req[r].calls = Len(req[r].outcomes) + IF req[r].pc = "calling" THEN 1 ELSE 0

\* C21 (as stated): a geometry-invalid plan of attempt 1 or 2 is dropped and
\* followed by another provider call, and a returned plan carries
\* validationWarnings if and only if it came from attempt 3 and failed
\* validation.
C21_WarningsIffFinalAttemptInvalid ==
    \A r \in 1..NumReq :
        /\ InvalidPlanRetried(r)
        /\ req[r].pc = "returned"
           => (req[r].result.plan.validationWarnings # Undefined
               <=> (/\ Len(req[r].outcomes) = 3
                    /\ ReportedInvalid(req[r].outcomes[3], req[r].key)))

\* C21 (amended): a geometry-invalid plan of attempt 1 or 2 is dropped and
\* followed by another provider call; the validationWarnings of a returned
\* plan are the validator's errors when the plan came from attempt 3 and
\* failed validation, and otherwise whatever property of that name the
\* provider's own answer had, none in an answer that follows the prompt.
C21_WarningsSetOnFinalAttemptOnly ==
    \A r \in 1..NumReq :
        /\ InvalidPlanRetried(r)
        /\ req[r].pc = "returned"
           => /\ IsDecodable(Last(req[r].outcomes))
              /\ req[r].result.plan.validationWarnings =
                    IF /\ Len(req[r].outcomes) = 3
                       /\ ReportedInvalid(req[r].outcomes[3], req[r].key)
                    THEN Arr(ValidationOf(req[r].outcomes[3], req[r].key).errors)
                    ELSE Last(req[r].outcomes).plan.validationWarnings
              /\ ReportedInvalid(Last(req[r].outcomes), req[r].key)
                 => Len(req[r].outcomes) = 3

\* Overlapping rooms on every attempt: the first two plans were dropped and
\* the third was returned with the validator's errors.
C21_Witness ==
    /\ req[1].pc = "returned"
    /\ req[1].outcomes = <<ContentOverlap, ContentOverlap, ContentOverlap>>
    /\ req[1].calls = 3
    /\ req[1].delays = <<retryDelay, 2 * retryDelay>>
    /\ req[1].result.plan.validationWarnings # Undefined

\* The answer decodes to a plan that passes geometry validation.
PassesGeometry(o, key) ==
    /\ IsDecodable(o)
    /\ ~ValidationOf(o, key).threw
    /\ ValidationOf(o, key).valid

\* C25: an empty response body fails only its own attempt: on attempt 1 or 2
\* it is followed by the backoff delay and another provider call, a valid
\* answer to a later attempt is returned (and cached), and an empty body on
\* all three attempts ends the request with the generic 500 failure.
C25_EmptyBodyFailsOneAttempt ==
    \A r \in 1..NumReq :
        LET q == req[r]
            n == Len(q.outcomes)
        IN  /\ (n > 0 /\ Last(q.outcomes) = ContentEmpty /\ n < 3)
               => /\ q.pc \in {"delaying", "calling"}
                  /\ q.error = Undefined
                  /\ Len(q.delays) = n
                  /\ Last(q.delays) = retryDelay * n
                  /\ q.calls = n + IF q.pc = "calling" THEN 1 ELSE 0
            /\ (/\ n > 1
                /\ \A i \in 1..(n - 1) : q.outcomes[i] = ContentEmpty
                /\ PassesGeometry(Last(q.outcomes), q.key))
               => /\ q.pc = "returned"
                  /\ q.result.plan =
                        parseAndValidateResponse(Last(q.outcomes), MetaOf(q.key)).plan
                  /\ getFromCache(responseCache, q.key, now) = q.result
            /\ (n = 3 /\ \A i \in 1..3 : q.outcomes[i] = ContentEmpty)
               => /\ q.pc = "failed"
                  /\ q.calls = 3
                  /\ q.error.isAppError
                  /\ q.error.statusCode = 500
                  /\ q.error.message = GenericFailure

\* Two empty bodies, then a valid plan on the third attempt.
C25_Witness ==
    /\ req[1].outcomes = <<ContentEmpty, ContentEmpty, ContentGood1>>
    /\ req[1].pc = "returned"
    /\ req[1].calls = 3

\* C26: the attempts of one request are sequential: the provider call of
\* attempt n+1 is made only when the outcome of attempt n is known and
\* retryDelay x n ms have passed since (1000 after attempt 1, 2000 after
\* attempt 2), and the attempt that ends the request is followed by no
\* delay.
C26_AttemptsSequentialWithBackoff ==
    /\ [](\A r \in 1..NumReq :
            /\ req[r].calls <= Len(req[r].outcomes) + 1
            /\ Len(req[r].delays) <= maxRetries - 1
            /\ \A i \in 1..Len(req[r].delays) : req[r].delays[i] = retryDelay * i
            /\ (Done(req[r]) /\ ~req[r].fromCache)
               => /\ req[r].calls = Len(req[r].outcomes)
                  /\ Len(req[r].delays) = Len(req[r].outcomes) - 1)
    /\ [][\A r \in 1..NumReq :
            /\ (req[r].calls >= 1 /\ req'[r].calls = req[r].calls + 1)
               => /\ req[r].pc = "delaying"
                  /\ Len(req[r].outcomes) = req[r].calls
                  /\ Len(req[r].delays) = req[r].calls
                  /\ now' >= req[r].wakeAt
            /\ (req[r].pc = "calling" /\ req'[r].pc = "delaying")
               => /\ Len(req'[r].outcomes) = req[r].calls
                  /\ req[r].calls < maxRetries
                  /\ req'[r].wakeAt = now + retryDelay * req[r].calls
                  /\ req'[r].delays = Append(req[r].delays, retryDelay * req[r].calls)]_vars

\* The third call is being made, 1000 ms and then 2000 ms after the two
\* outcomes before it.
C26_Witness ==
    /\ req[1].pc = "calling"
    /\ req[1].calls = 3
    /\ Len(req[1].outcomes) = 2
    /\ req[1].delays = <<retryDelay, 2 * retryDelay>>
    /\ now = 3 * retryDelay

-----------------------------------------------------------------------------
(* Properties of concurrent generatePlan requests, under SpecCache *)

\* The positions in cacheLog of the writes made by request r.
WritesBy(r) == {i \in 1..Len(cacheLog) : cacheLog[i].by = r}

\* Requests r and s, for the same key, both found no entry in the cache and
\* neither had stored its result when the other made its cache check.
BothMissed(r, s) ==
    /\ r # s
    /\ req[r].pc # "idle" /\ req[s].pc # "idle"
    /\ req[r].key = req[s].key
    /\ ~req[r].fromCache /\ ~req[s].fromCache
    /\ \A i \in WritesBy(r) : i > req[s].logAtStart
    /\ \A i \in WritesBy(s) : i > req[r].logAtStart

\* C24: requests are not coalesced: of two requests with the same key that
\* both passed the cache check before either wrote the cache, each calls the
\* provider itself and returns what its own answer decoded to, and once both
\* have returned the cache holds the result of the one that wrote last
\* (unless a third request wrote after them).
C24_RequestsNotCoalesced ==
    \A r, s \in 1..NumReq :
        BothMissed(r, s)
        => /\ req[r].calls >= 1
           /\ req[r].calls = Len(req[r].outcomes) + IF req[r].pc = "calling" THEN 1 ELSE 0
           /\ req[r].pc = "returned"
              => /\ req[r].result.plan =
                      parseAndValidateResponse(Last(req[r].outcomes),
                                               MetaOf(req[r].key)).plan
                 /\ \E i \in WritesBy(r) :
                       /\ WritesBy(r) = {i}
                       /\ cacheLog[i].data = req[r].result
           /\ (/\ req[r].pc = "returned" /\ req[s].pc = "returned"
               /\ cacheLog[Len(cacheLog)].by = r)
              => /\ MapGet(responseCache, req[r].key).data = req[r].result
                 /\ MapGet(responseCache, req[r].key).timestamp =
                       cacheLog[Len(cacheLog)].at

\* Requests 1 and 2 both missed; 2 returned one plan, then 1 returned
\* another, which is the one the cache holds.
C24_Witness ==
    /\ BothMissed(1, 2)
    /\ req[1].pc = "returned" /\ req[2].pc = "returned"
    /\ req[1].result # req[2].result
    /\ Len(cacheLog) = 2
    /\ cacheLog[1].by = 2 /\ cacheLog[2].by = 1
    /\ MapGet(responseCache, req[1].key).data = req[1].result

-----------------------------------------------------------------------------
(* Properties of the files an export returns, under SpecKey and SpecCad *)

\* C22: a successful export result has a file entry for every output format
\* the request asked for, also when the result comes from the cache.
C22_RequestedFormatsPresent ==
    (cadLast.kind \in {"hit", "cached"} /\ cadLast.response.success)
    => /\ cadLast.input.outputFormats.dxf
          => cadLast.response.files.dxf # Undefined
       /\ cadLast.input.outputFormats.dwg
          => cadLast.response.files.dwg # Undefined

\* The dwg file of the last export is presented as a converted drawing: dwg
\* file name, application/acad, no fallback note, and no warning.
GenuineDwg ==
    /\ cadLast.kind \in {"hit", "cached"}
    /\ cadLast.response.success
    /\ cadLast.response.files.dwg # Undefined
    /\ cadLast.response.files.dwg.filename = "dwg"
    /\ cadLast.response.files.dwg.mimeType = "application/acad"
    /\ cadLast.response.files.dwg.note = ""
    /\ cadLast.response.warnings = <<>>

\* C23: a file presented as a converted drawing holds the bytes a conversion
\* method produced when it ran successfully, never the bytes of the DXF text.
C23_GenuineDwgIsConverted ==
    GenuineDwg
    => /\ cadLast.response.files.dwg.content.isBuffer
       /\ cadLast.response.files.dwg.content.content = "dwg"
       /\ cadLast.response.files.dwg.content.by \in {"cloudconvert", "libredwg", "oda"}

-----------------------------------------------------------------------------
(* Properties of the order of the export cache, under SpecCad *)

\* The stored entries with the oldest timestamp.
OldestStored(m) ==
    {e \in Entries(m) : \A f \in Entries(m) : e.timestamp <= f.timestamp}

\* The Map's iteration order, the order of eviction, is non-decreasing in
\* the entries' timestamps.
OrderedByTimestamp(m) ==
    \A i, j \in 1..Len(m) : i < j => m[i].timestamp <= m[j].timestamp

\* C30: the entry evicted from a full export cache is one with the oldest
\* timestamp, the eviction order being non-decreasing in timestamp after any
\* sequence of inserts, the re-caching of an expired key among them.
C30_EvictsOldestTimestamp ==
    /\ [][(Len(cache) = MAX_CACHE_SIZE /\ cadLast'.kind = "cached" /\ cache' # cache)
          => Entries(cache) \ Entries(cache') \subseteq OldestStored(cache)]_vars
    /\ [] OrderedByTimestamp(cache)

-----------------------------------------------------------------------------
(* Properties of the lifetime of cache entries, under SpecExpiry *)

\* An export call is made in this step.
ExportCall == (cadLast' # cadLast \/ cache' # cache) /\ cadLast'.kind # "cleared"

\* C27: neither cache returns an entry that is 5 minutes old or older: a
\* request is answered from the generation cache, or an export from the
\* export cache, exactly when the entry under its key is younger than
\* 5 minutes; an older entry, though still stored, makes the read a miss,
\* and the result is computed and stored anew.
C27_ReadsOnlyWithinLifetime ==
    [][/\ \A r \in 1..NumReq :
            Starts(r)
            => LET key == req'[r].key
                   young == /\ MapHas(responseCache, key)
                            /\ now - MapGet(responseCache, key).timestamp < 5 * 60 * 1000
               IN  /\ req'[r].fromCache <=> young
                   /\ young => /\ req'[r].pc = "returned"
                               /\ req'[r].result = MapGet(responseCache, key).data
                   /\ ~young => /\ req'[r].pc = "calling"
                                /\ req'[r].calls = 1
                                /\ req'[r].result = Undefined
                   /\ responseCache' = responseCache
       /\ ExportCall
          => LET key == cadLast'.key
                 young == /\ MapHas(cache, key)
                          /\ now - MapGet(cache, key).timestamp < 5 * 60 * 1000
             IN  /\ cadLast'.kind = "hit" <=> young
                 /\ young => /\ cadLast'.response = MapGet(cache, key).data
                             /\ cache' = cache
                 /\ ~young => /\ cadLast'.kind = "cached"
                              /\ MapGet(cache', key).timestamp = now
                              /\ MapGet(cache', key).data = cadLast'.response]_vars

\* A request that started when the entry of its key was exactly 5 minutes
\* old called the provider and stored its own result, and the drawing was
\* exported again at that time.
C27_Witness ==
    /\ Len(cacheLog) = 2
    /\ cacheLog[1].at = 0
    /\ cacheLog[2].at = 5 * 60 * 1000
    /\ cacheLog[1].key = cacheLog[2].key
    /\ \E r \in 1..NumReq :
          /\ cacheLog[2].by = r
          /\ req[r].logAtStart = 1
          /\ ~req[r].fromCache
          /\ req[r].pc = "returned"
    /\ cadLast.kind = "cached"
    /\ Len(cache) = 1
    /\ cache[1].timestamp = 5 * 60 * 1000

-----------------------------------------------------------------------------
(* Properties of the sweep of the generation cache, under SpecSweep *)

\* Request r, which found no entry to return, gets the provider's answer
\* and stores its result in this step.
Inserts(r) ==
    /\ req[r].pc = "calling"
    /\ req'[r].pc = "returned"

\* Request r is answered from the cache in this step.
Reads(r) ==
    /\ req[r].pc = "idle"
    /\ req'[r].pc = "returned"

\* The size of the Map after the set of r's insert and before its sweep.
SizeAfterSet(r) ==
    Len(responseCache) + IF MapHas(responseCache, req[r].key) THEN 0 ELSE 1

\* The entry is one a read at time t would return.
Live(e, t) == t - e.timestamp < 5 * 60 * 1000

\* The entry is older than the lifetime at time t.
Older(e, t) == t - e.timestamp > 5 * 60 * 1000

\* C28: an insert removes only entries older than 5 minutes; an entry that a
\* read would still return stays stored as it is (unless it is the one
\* written), so the cache grows beyond 100 entries when more than 100 are
\* live.
C28_SweepRemovesOnlyOlderEntries ==
    [][\A r \in 1..NumReq :
         Inserts(r)
         => /\ \A e \in Entries(responseCache) :
                   /\ ~MapHas(responseCache', e.key) => Older(e, now')
                   /\ (Live(e, now) /\ e.key # req[r].key)
                      => e \in Entries(responseCache')
            /\ MapGet(responseCache', req[r].key) =
                   [key |-> req[r].key, data |-> req'[r].result, timestamp |-> now]
            /\ Len(responseCache') >=
                   Cardinality({e \in Entries(responseCache) : Live(e, now)})]_vars

\* 102 results were stored at the same time: all are live, and all are
\* kept.
C28_Witness ==
    /\ Len(responseCache) = 102
    /\ \A i \in 1..Len(responseCache) : Live(responseCache[i], now)
    /\ \E r \in 1..NumReq :
          /\ req[r].pc = "returned"
          /\ req[r].key = 102
          /\ ~req[r].fromCache

\* C29: expired entries are purged only by an insert that takes the Map over
\* 100 entries: after such an insert no entry older than 5 minutes is
\* stored; an insert that does not take it over 100, any read, and the
\* passing of time between requests leave every stored entry in place,
\* expired ones included.
C29_PurgeOnlyOverThreshold ==
    [][/\ \A r \in 1..NumReq :
            /\ (Inserts(r) /\ SizeAfterSet(r) > 100)
               => \A e \in Entries(responseCache') : ~Older(e, now')
            /\ (Inserts(r) /\ SizeAfterSet(r) <= 100)
               => /\ MapKeys(responseCache') = MapKeys(responseCache) \cup {req[r].key}
                  /\ \A e \in Entries(responseCache) :
                        e.key # req[r].key => e \in Entries(responseCache')
            /\ Reads(r) => responseCache' = responseCache
       /\ (\A r \in 1..NumReq : ~Inserts(r)) => responseCache' = responseCache]_vars

\* The 101st key was stored a lifetime and a half after the first fifty and
\* a lifetime after the next fifty: the first fifty are gone, the next fifty,
\* exactly 5 minutes old, are kept.
C29_Witness ==
    /\ Len(responseCache) = 51
    /\ now = 450000
    /\ \E r \in 1..NumReq :
          /\ req[r].pc = "returned"
          /\ req[r].key = 101
          /\ ~req[r].fromCache
    /\ responseCache[51].key = 101
    /\ responseCache[1].key = 51
    /\ \A i \in 1..50 : now - responseCache[i].timestamp = 5 * 60 * 1000

-----------------------------------------------------------------------------
(* Properties of the hash of the export cache key, under SpecHash *)

\* C31: requests that differ in building type, building dimensions, the
\* content of the selected floor or scale never get the same key, so the
\* result a cache hit returns was made for the building type and floor of
\* the request and holds the drawing generateDXF writes for it.
C31_HitReturnsOwnDrawing ==
    cadLast.kind = "hit"
    => /\ cadLast.response.metadata =
              Metadata(cadLast.input.planData, cadLast.input.floorIndex,
                       cadLast.input.scale)
       /\ cadLast.response.files.dxf.content =
              generateDXF(cadLast.input.planData, cadLast.input.floorIndex,
                          cadLast.input.scale).value

-----------------------------------------------------------------------------
(* Properties of pollJobStatus, under SpecPollFair *)

\* C32: pollJobStatus makes at most 60 status requests, each after a wait of
\* 2 s; it returns the job on the first 'finished' status, fails with the
\* conversion failure on the first 'error' status, and fails with the
\* timeout error, a different one, when the 60th request finds neither; so
\* it ends once every status request has settled.
C32_PollingIsBounded ==
    /\ [](/\ poll.requests <= 60
          /\ poll.sleeps = poll.requests
          /\ now = 2000 * poll.requests
          /\ (poll.pc \notin {"idle", "requesting"} /\ poll.requests > 0)
             => /\ poll.last = "finished"
                   <=> (poll.pc = "returned" /\ poll.job.status = "finished")
                /\ poll.last = "error"
                   <=> (poll.pc = "failed"
                        /\ poll.error = "Conversion failed: Unknown error")
                /\ (poll.last \in {"processing", "waiting"} /\ poll.requests < 60)
                   => poll.pc = "sleeping"
                /\ (poll.last \in {"processing", "waiting"} /\ poll.requests = 60)
                   <=> (poll.pc = "failed"
                        /\ poll.error = "Job timeout: conversion took too long"))
    /\ (poll.pc # "idle") ~> (poll.pc \in {"returned", "failed"})

\* Sixty status requests, two minutes in all, found the job neither finished
\* nor failed.
C32_Witness ==
    /\ poll.pc = "failed"
    /\ poll.requests = 60
    /\ poll.error = "Job timeout: conversion took too long"
    /\ now = 120000

-----------------------------------------------------------------------------
(* Properties of the local tools' temporary files, under SpecTool *)

\* Conversion c ends in this step.
ToolEnds(c) == tool[c].pc # "done" /\ tool'[c].pc = "done"

\* C33: when a LibreDWG or ODA conversion ends, whether the tool converted,
\* its invocation failed or reading its output failed, nothing is left at
\* the temporary paths the conversion created.
C33_TempFilesRemoved ==
    [][\A c \in 1..NumTools :
          ToolEnds(c)
          => /\ FileAt(disk', tool[c].inPath) = Undefined
             /\ FileAt(disk', tool[c].outPath) = Undefined
             /\ \A f \in disk' : f \in disk]_vars

\* An ODA conversion whose tool failed has ended with its error, no other
\* conversion was made, and the temporary directory is empty.
C33_Witness ==
    /\ tool[1].pc = "done"
    /\ tool[1].method = "oda"
    /\ tool[1].result.threw
    /\ tool[2].pc = "idle"
    /\ disk = {}

\* Conversion c is in flight: between its start and its end.
InFlight(k) == k.pc \in {"exec", "exited"}

\* C34: conversions in flight are isolated: they name different temporary
\* paths, and a step of one conversion (its start, the end of its tool, its
\* reading and cleanup) leaves what is at the paths of another conversion in
\* flight as it was.
C34_ConversionsIsolated ==
    /\ [](\A c, d \in 1..NumTools :
            (c # d /\ InFlight(tool[c]) /\ InFlight(tool[d]))
            => {tool[c].inPath, tool[c].outPath}
                 \cap {tool[d].inPath, tool[d].outPath} = {})
    /\ [][\A c, d \in 1..NumTools :
            (c # d /\ InFlight(tool[c]) /\ tool'[d] # tool[d])
            => /\ FileAt(disk', tool[c].inPath) = FileAt(disk, tool[c].inPath)
               /\ FileAt(disk', tool[c].outPath) = FileAt(disk, tool[c].outPath)]_vars

-----------------------------------------------------------------------------
(* Properties of failed exports, under SpecKey *)

\* The export cache would serve key at the current time.
Servable(m, key) == MapHas(m, key) /\ now - MapGet(m, key).timestamp < CACHE_TTL

\* C35: a generateCADFiles call that returns success = false leaves the
\* export cache as it was (no entry added, replaced or evicted), the cache
\* never holds a failure, and after the failure the cache still has nothing
\* to serve for the request's key, so that the same request is processed
\* again.
C35_FailureLeavesCacheUnchanged ==
    /\ [](\A i \in 1..Len(cache) : cache[i].data.success)
    /\ [][(CallStep /\ cadLast' # cadLast /\ ~cadLast'.response.success)
           => /\ cache' = cache
              /\ cadSeq' = cadSeq
              /\ ~Servable(cache', cadLast'.key)]_vars

\* Floor 2 of a two-floor plan was asked for and the call failed, while the
\* cache held the exports of both floors of that plan.
C35_Witness ==
    /\ cadLast.kind = "failed"
    /\ ~cadLast.response.success
    /\ cadLast.input.floorIndex = 2
    /\ Len(cadLast.input.planData.floors.items) = 2
    /\ Len(cache) >= 2
    /\ ~MapHas(cache, cadLast.key)

-----------------------------------------------------------------------------
(* Properties of the overlap errors and of the normalized plan, under      *)
(* SpecValidate                                                            *)

\* The pairs <<f, i, j>> of rooms i < j of floor f on which roomsOverlap
\* returns true.
OverlappingPairs(floors) ==
    {p \in UNION {{<<f, i, j>> : i, j \in 1..Len(floors[f].rooms.items)} :
                     f \in 1..Len(floors)} :
        /\ p[2] < p[3]
        /\ ~roomsOverlapThrows(floors[p[1]].rooms.items[p[2]],
                               floors[p[1]].rooms.items[p[3]])
        /\ roomsOverlap(floors[p[1]].rooms.items[p[2]],
                        floors[p[1]].rooms.items[p[3]])}

\* The overlap error of a pair.
OverlapErrorOf(floors, p) ==
    [kind |-> "overlap", room |-> floors[p[1]].rooms.items[p[2]].name,
     other |-> floors[p[1]].rooms.items[p[3]].name, floor |-> floors[p[1]].level]

\* Rooms of different floors that roomsOverlap would call overlapping.
CrossFloorOverlap(floors) ==
    \E f, g \in 1..Len(floors) :
        /\ f # g
        /\ \E i \in 1..Len(floors[f].rooms.items), j \in 1..Len(floors[g].rooms.items) :
               /\ ~roomsOverlapThrows(floors[f].rooms.items[i], floors[g].rooms.items[j])
               /\ roomsOverlap(floors[f].rooms.items[i], floors[g].rooms.items[j])

\* C36: in the report of validatePlanGeometry the overlap errors are, one
\* for one, the pairs of rooms i < j of a same floor on which roomsOverlap
\* is true: each such pair has exactly one error, naming its two rooms and
\* its floor, and there is no other overlap error, in particular none for
\* rooms of different floors.
C36_OneOverlapErrorPerPair ==
    (vpc = "validated" /\ ~vres.threw /\ vplan.plan.buildingDimensions # Undefined)
    => \A e \in {vres.errors[k] : k \in {n \in 1..Len(vres.errors) :
                                            vres.errors[n].kind = "overlap"}}
               \cup {OverlapErrorOf(vplan.plan.floors.items, p) :
                        p \in OverlappingPairs(vplan.plan.floors.items)} :
           Cardinality({k \in 1..Len(vres.errors) : vres.errors[k] = e})
             = Cardinality({p \in OverlappingPairs(vplan.plan.floors.items) :
                               OverlapErrorOf(vplan.plan.floors.items, p) = e})

\* A plan of two floors was validated: the two rooms of the ground floor
\* overlap and got one overlap error, and a room of the floor above lies
\* over them.
C36_Witness ==
    /\ vpc = "validated"
    /\ ~vres.threw
    /\ Len(vplan.plan.floors.items) = 2
    /\ Cardinality(OverlappingPairs(vplan.plan.floors.items)) = 1
    /\ Cardinality({k \in 1..Len(vres.errors) : vres.errors[k].kind = "overlap"}) = 1
    /\ CrossFloorOverlap(vplan.plan.floors.items)

\* The rooms of a plan, as <<floor number, room number>>.
RoomsOf(plan) ==
    UNION {{<<f, i>> : i \in 1..Len(plan.floors.items[f].rooms.items)} :
              f \in 1..Len(plan.floors.items)}

RoomOf(plan, p) == plan.floors.items[p[1]].rooms.items[p[2]]

\* C37: in the plan parseAndValidateResponse returns no two rooms, of the
\* same floor or of different floors, have the same id.
C37_RoomIdsUnique ==
    (vpc \in {"parsed", "validated"})
    => \A p, q \in RoomsOf(vplan.plan) :
           p # q => RoomOf(vplan.plan, p).id # RoomOf(vplan.plan, q).id

\* The plan has a floor, every floor a level and a room, and every room an
\* id, a name, a type, a position and door and window collections.
PlanComplete(plan) ==
    /\ Len(plan.floors.items) >= 1
    /\ \A f \in 1..Len(plan.floors.items) :
           /\ plan.floors.items[f].level # ""
           /\ Len(plan.floors.items[f].rooms.items) >= 1
    /\ \A p \in RoomsOf(plan) :
           /\ RoomOf(plan, p).id # ""
           /\ RoomOf(plan, p).name # ""
           /\ RoomOf(plan, p).type # ""
           /\ RoomOf(plan, p).position # Undefined
           /\ RoomOf(plan, p).doors # Undefined
           /\ RoomOf(plan, p).windows # Undefined

\* The fields that are texts, objects and arrays keep the value the raw
\* plan has for them.
ValuesKept(raw, plan) ==
    /\ raw.buildingType # "" => plan.buildingType = raw.buildingType
    /\ raw.buildingDimensions # Undefined
         => plan.buildingDimensions = raw.buildingDimensions
    /\ raw.exterior # Undefined => plan.exterior = raw.exterior
    /\ raw.designNotes # Undefined => plan.designNotes = raw.designNotes
    /\ \A f \in 1..Len(raw.floors.items) :
           raw.floors.items[f].level # ""
           => plan.floors.items[f].level = raw.floors.items[f].level
    /\ \A p \in RoomsOf(raw) :
           /\ RoomOf(raw, p).id # "" => RoomOf(plan, p).id = RoomOf(raw, p).id
           /\ RoomOf(raw, p).name # "" => RoomOf(plan, p).name = RoomOf(raw, p).name
           /\ RoomOf(raw, p).type # "" => RoomOf(plan, p).type = RoomOf(raw, p).type
           /\ RoomOf(raw, p).dimensions # Undefined
                => RoomOf(plan, p).dimensions = RoomOf(raw, p).dimensions
           /\ RoomOf(raw, p).position # Undefined
                => RoomOf(plan, p).position = RoomOf(raw, p).position
           /\ RoomOf(raw, p).doors # Undefined
                => RoomOf(plan, p).doors = RoomOf(raw, p).doors
           /\ RoomOf(raw, p).windows # Undefined
                => RoomOf(plan, p).windows = RoomOf(raw, p).windows

\* The areas written in the raw plan are the areas of the plan.
AreasKept(raw, plan) ==
    /\ raw.totalArea # UNDEF => plan.totalArea = raw.totalArea
    /\ \A f \in 1..Len(raw.floors.items) :
           raw.floors.items[f].totalArea # UNDEF
           => plan.floors.items[f].totalArea = raw.floors.items[f].totalArea
    /\ \A p \in RoomsOf(raw) :
           RoomOf(raw, p).areaSqft # UNDEF
           => RoomOf(plan, p).areaSqft = RoomOf(raw, p).areaSqft

\* The areas written in the raw plan and not zero are the areas of the plan.
NonZeroAreasKept(raw, plan) ==
    /\ ~Falsy(raw.totalArea) => plan.totalArea = raw.totalArea
    /\ \A f \in 1..Len(raw.floors.items) :
           ~Falsy(raw.floors.items[f].totalArea)
           => plan.floors.items[f].totalArea = raw.floors.items[f].totalArea
    /\ \A p \in RoomsOf(raw) :
           ~Falsy(RoomOf(raw, p).areaSqft)
           => RoomOf(plan, p).areaSqft = RoomOf(raw, p).areaSqft

\* C38 as stated: the plan parseAndValidateResponse returns is complete and
\* every field the raw plan has keeps its raw value.
C38_PresentFieldsKept ==
    (vpc \in {"parsed", "validated"})
    => /\ PlanComplete(vplan.plan)
       /\ ValuesKept(vin.plan, vplan.plan)
       /\ AreasKept(vin.plan, vplan.plan)

\* C38, amended: the plan parseAndValidateResponse returns is complete and
\* every field the raw plan has keeps its raw value, unless that value is
\* zero, which is filled in as a field left out is.
C38_TruthyFieldsKept ==
    (vpc \in {"parsed", "validated"})
    => /\ PlanComplete(vplan.plan)
       /\ ValuesKept(vin.plan, vplan.plan)
       /\ NonZeroAreasKept(vin.plan, vplan.plan)

\* A plan was normalized whose first room had every field written, with an
\* area of zero, and whose second room had none: the first room kept its
\* id and position and got the area of its dimensions, the second got its
\* id, name, type and position from the fill-in rules.
C38_Witness ==
    /\ vpc = "parsed"
    /\ Len(vin.plan.floors.items[1].rooms.items) = 2
    /\ vin.plan.floors.items[1].rooms.items[1] = FullRoom(0)
    /\ vin.plan.floors.items[1].rooms.items[2].position = Undefined
    /\ vplan.plan.floors.items[1].rooms.items[1].id = "r1"
    /\ vplan.plan.floors.items[1].rooms.items[1].position = Pos(16, 0)
    /\ vplan.plan.floors.items[1].rooms.items[1].areaSqft = 224
    /\ vplan.plan.floors.items[1].rooms.items[2].id = "room-0-1"
    /\ vplan.plan.floors.items[1].rooms.items[2].position = Pos(0, 0)

\* The room has position and dimensions.
IsPlaced(room) == room.position # Undefined /\ room.dimensions # Undefined

\* The rooms above the ground floor named name that are over the edge of
\* the building, by width or by depth as kind says.
UpperRoomsOver(plan, kind, name) ==
    {p \in RoomsOf(plan) :
        /\ p[1] > 1
        /\ IsPlaced(RoomOf(plan, p))
        /\ RoomOf(plan, p).name = name
        /\ IF kind = "width"
           THEN RoomOf(plan, p).position.x + RoomOf(plan, p).dimensions.width
                    > plan.buildingDimensions.width + boundsTolerance
           ELSE RoomOf(plan, p).position.y + RoomOf(plan, p).dimensions.length
                    > plan.buildingDimensions.depth + boundsTolerance}

\* C39: when the raw plan has no buildingDimensions, every room of the
\* ground floor that has position and dimensions lies within the computed
\* width and depth, and the width and depth errors of the validator's
\* report are, one for one, those of rooms of the floors above.
C39_GroundRoomsWithinComputedBounds ==
    (vpc = "validated" /\ ~vres.threw /\ vin.plan.buildingDimensions = Undefined)
    => /\ vplan.plan.buildingDimensions.width >= 20
       /\ vplan.plan.buildingDimensions.depth >= 20
       /\ \A i \in 1..Len(vplan.plan.floors.items[1].rooms.items) :
              IsPlaced(vplan.plan.floors.items[1].rooms.items[i])
              => /\ vplan.plan.floors.items[1].rooms.items[i].position.x
                      + vplan.plan.floors.items[1].rooms.items[i].dimensions.width
                    <= vplan.plan.buildingDimensions.width
                 /\ vplan.plan.floors.items[1].rooms.items[i].position.y
                      + vplan.plan.floors.items[1].rooms.items[i].dimensions.length
                    <= vplan.plan.buildingDimensions.depth
       /\ \A kind \in {"width", "depth"} :
              \A name \in {RoomOf(vplan.plan, p).name : p \in RoomsOf(vplan.plan)} :
                  Cardinality({k \in 1..Len(vres.errors) :
                                  /\ vres.errors[k].kind = kind
                                  /\ vres.errors[k].room = name})
                    = Cardinality(UpperRoomsOver(vplan.plan, kind, name))

\* A plan without buildingDimensions was validated: the room of its ground
\* floor has position and dimensions and lies within the computed 20 x 20,
\* and the one width error of the report is that of the room of the floor
\* above, whose right edge is at 28.
C39_Witness ==
    /\ vpc = "validated"
    /\ ~vres.threw
    /\ vin.plan.buildingDimensions = Undefined
    /\ vplan.plan.buildingDimensions = [width |-> 20, depth |-> 20]
    /\ Len(vplan.plan.floors.items) = 2
    /\ IsPlaced(vplan.plan.floors.items[1].rooms.items[1])
    /\ vplan.plan.floors.items[2].rooms.items[1].name = "Master Bedroom"
    /\ Cardinality({k \in 1..Len(vres.errors) : vres.errors[k].kind = "width"}) = 1
    /\ \E k \in 1..Len(vres.errors) :
           vres.errors[k].kind = "width" /\ vres.errors[k].room = "Master Bedroom"

=============================================================================
